---- MODULE Spec2Model ----
(***************************************************************************)
(* claude-dashboard: the log-tail state inference engine                   *)
(* (src/src/claude_code_dashboard/agent_parser.py).                        *)
(*                                                                         *)
(* A session log is a sequence of lines, oldest first.  A writer appends   *)
(* lines, the clock advances, and a poller runs parse_agent_state, which   *)
(* is modelled in the steps of its code: stat and staleness check, tail    *)
(* read, the backward scan (one step per line), classification.            *)
(*                                                                         *)
(* Representation of values                                                *)
(*   - a text (status string, tool phrase, formatted age) is a record      *)
(*     [tpl, lang, arg, n]: the template it was formatted with, the        *)
(*     language of the table the template came from, and the arguments     *)
(*     put in its placeholder (arg: a sequence of characters or path       *)
(*     segments, n: a number).  A raw string s is Raw(s).                  *)
(*   - a model identifier is a sequence of tokens.                         *)
(*   - times are whole seconds.                                            *)
(***************************************************************************)
EXTENDS Integers, Sequences, FiniteSets, TLC

VARIABLES
    file,          \* the log file: a sequence of line records, oldest first
    mtime,         \* st_mtime of the file
    now,           \* the wall clock, time.time()
    current_lang,  \* constants._current_lang
    env_lang,      \* what messages.detect_lang() resolves the process locale to
    pc,            \* position of the poller inside parse_agent_state
    file_size,     \* local file_size (st_size at the stat)
    age,           \* local age (first clock read), -1 before it is computed
    lines,         \* local lines: what _read_tail_lines returned
    idx,           \* number of lines of `lines` the scan has still to visit
    scan,          \* the scan's local variables (one record)
    tsu,           \* local time_since_update (second clock read), -1 before
    result,        \* the returned AgentState (NoState before the return)
    nstat,         \* stat() calls made by the current call
    nopen,         \* open() calls made by the current call
    nbytes,        \* bytes read from the file by the current call
    ticked,        \* clock ticks that happened inside the current call
    prev,          \* the previous call, kept by a caller that polls again
    projects,      \* the *.jsonl and other files under ~/.claude/projects
    sessions       \* what scan_sessions returned last

vars == << file, mtime, now, current_lang, env_lang, pc, file_size, age, lines,
           idx, scan, tsu, result, nstat, nopen, nbytes, ticked, prev,
           projects, sessions >>

----------------------------------------------------------------------------
(* Bounds of the model *)

MaxLines == 3
MaxTicksInCall == 1
StartTime == 1000

(* The ages (now - mtime) the clock visits: both sides of every threshold  *)
(* of the classifier (3, 5, 7, 120) and the ages the specification names.  *)
AgePoints == {0, 2, 3, 5, 6, 7, 8, 10, 120, 121, 130}

----------------------------------------------------------------------------
(* Program constants *)

ACTIVE_THRESHOLD_S == 30
IDLE_THRESHOLD_S == 120
RECENT_THRESHOLD_S == 600
PERMISSION_TIMER_S == 7
INPUT_WAIT_TIMER_S == 5
BASH_CMD_MAX_LEN == 30
THINKING_WINDOW_S == 3
TAIL_BYTES == 32768

STATE_WORKING == "working"
STATE_THINKING == "thinking"
STATE_WAITING_PERMISSION == "waiting_permission"
STATE_WAITING_INPUT == "waiting_input"
STATE_IDLE == "idle"

States == {STATE_WORKING, STATE_THINKING, STATE_WAITING_PERMISSION,
           STATE_WAITING_INPUT, STATE_IDLE}

EXEMPT_TOOLS == {"Read", "Glob", "Grep", "TodoWrite", "WebSearch", "WebFetch",
                 "Agent", "Task", "AskUserQuestion"}

PROGRESS_SUBTYPES == {"bash_progress", "mcp_progress", "agent_progress"}

(* messages._REGISTRY, two of its languages *)
REGISTRY == {"en", "ja"}

----------------------------------------------------------------------------
(* Texts *)

Fmt(tpl, lang, arg, n) == [tpl |-> tpl, lang |-> lang, arg |-> arg, n |-> n]

Raw(s) == Fmt("{}", "", <<s>>, 0)

EmptyText == Raw("")

(* messages.get_messages(lang): the language of the table it returns *)
get_messages(lang) ==
    LET l == IF lang = "auto" THEN env_lang ELSE lang
    IN  IF l \in REGISTRY THEN l ELSE "en"

(* constants.get_tool_display(): tool name -> template of the current     *)
(* language; "" for a tool without a template                             *)
ToolTemplate(tool_name) ==
    CASE tool_name = "Read" -> "tool_reading"
      [] tool_name = "Edit" -> "tool_editing"
      [] tool_name = "Write" -> "tool_writing"
      [] tool_name = "Bash" -> "tool_running"
      [] tool_name \in {"Grep", "Glob"} -> "tool_searching"
      [] tool_name = "Task" -> "tool_sub_agent"
      [] tool_name = "WebSearch" -> "tool_browsing_web"
      [] tool_name = "WebFetch" -> "tool_fetching_web"
      [] tool_name = "TodoWrite" -> "tool_updating_todos"
      [] OTHER -> ""

(* the templates that hold a placeholder "{}" *)
HasPlaceholder(tpl) ==
    tpl \in {"tool_reading", "tool_editing", "tool_writing", "tool_running",
             "tool_searching", "tool_sub_agent"}

get_tool_display_lang == get_messages(current_lang)

----------------------------------------------------------------------------
(* Log lines.  A line is its length in bytes (without the line break) and  *)
(* what json.loads makes of it:                                            *)
(*   json = "blank"   an empty or whitespace-only line                     *)
(*   json = "bad"     not JSON                                             *)
(*   json = "nonobj"  JSON, but not an object (a number, a string, ...)    *)
(*   json = "deep"    text on which json.loads fails with an exception     *)
(*                    other than JSONDecodeError: arrays nested beyond the *)
(*                    recursion limit (RecursionError), an integer of more *)
(*                    digits than int() converts (ValueError)              *)
(*   json = "obj"     an object: type, subtype, message (msg_ok: message   *)
(*                    is a mapping), message.model, message.content        *)
(*                    (content_list: content is a list)                    *)
(* A block of content: dict (the block is a mapping), type, id (tool_use:  *)
(* "id", tool_result: "tool_use_id"; "" when missing, UNHASHABLE for a     *)
(* JSON list or object), name, input (input_ok: input is a mapping).       *)

UNHASHABLE == "<list>"

NoInput == [file_path |-> <<>>, path |-> <<>>, command |-> <<>>,
            pattern |-> <<>>, description |-> <<>>]

Block(type, id, name, input_ok, input) ==
    [dict |-> TRUE, type |-> type, id |-> id, name |-> name,
     input_ok |-> input_ok, input |-> input]

TextBlock == Block("text", "", "", TRUE, NoInput)

ToolUse(id, name, input) == Block("tool_use", id, name, TRUE, input)

ToolResult(id) == Block("tool_result", id, "", TRUE, NoInput)

Line(bytes, json, type, subtype, msg_ok, model, content_list, content) ==
    [bytes |-> bytes, json |-> json, type |-> type, subtype |-> subtype,
     msg_ok |-> msg_ok, model |-> model, content_list |-> content_list,
     content |-> content]

BlankLine == Line(0, "blank", "", "", TRUE, <<>>, TRUE, <<>>)

BadLine == Line(40, "bad", "", "", TRUE, <<>>, TRUE, <<>>)

NonObjLine == Line(1, "nonobj", "", "", TRUE, <<>>, TRUE, <<>>)

DeepLine == Line(2000, "deep", "", "", TRUE, <<>>, TRUE, <<>>)

System(subtype) == Line(60, "obj", "system", subtype, TRUE, <<>>, TRUE, <<>>)

OtherLine == Line(50, "obj", "summary", "", TRUE, <<>>, TRUE, <<>>)

User(content) == Line(100, "obj", "user", "", TRUE, <<>>, TRUE, content)

(* a user prompt: message.content is a string *)
UserPrompt == Line(100, "obj", "user", "", TRUE, <<>>, FALSE, <<>>)

(* "message" is not a mapping *)
UserBadMessage == Line(100, "obj", "user", "", FALSE, <<>>, TRUE, <<>>)

Assistant(model, content) ==
    Line(100, "obj", "assistant", "", TRUE, model, TRUE, content)

Sized(l, bytes) == [l EXCEPT !.bytes = bytes]

OPUS == <<"claude", "opus", "4">>

BashLs == [NoInput EXCEPT !.command = <<"l", "s">>]

ReadFile == [NoInput EXCEPT !.file_path = <<"src", "a.py">>]

----------------------------------------------------------------------------
(* _format_tool_status(tool_name, tool_input): [raised, text]              *)

Last(s) == s[Len(s)]

Ellipsis == <<"...">>

(* variant of TruncateCmd: a command of exactly 30 characters is cut too *)
TruncateCmdFromMax(cmd) ==
    IF Len(cmd) >= BASH_CMD_MAX_LEN
    THEN SubSeq(cmd, 1, BASH_CMD_MAX_LEN) \o Ellipsis
    ELSE cmd

TruncateCmd(cmd) ==
    IF Len(cmd) > BASH_CMD_MAX_LEN
    THEN SubSeq(cmd, 1, BASH_CMD_MAX_LEN) \o Ellipsis
    ELSE cmd

format_tool_status(tool_name, input_ok, tool_input) ==
    LET template == ToolTemplate(tool_name)
        lang == get_tool_display_lang
        Ok(arg) == [raised |-> FALSE, text |-> Fmt(template, lang, arg, 0)]
        Raise == [raised |-> TRUE, text |-> EmptyText]
    IN  IF template = "" THEN [raised |-> FALSE, text |-> Raw(tool_name)]
        ELSE IF tool_name \in {"Read", "Edit", "Write"} THEN
            IF ~input_ok THEN Raise
            ELSE LET path == IF tool_input.file_path # <<>>
                             THEN tool_input.file_path ELSE tool_input.path
                 IN  IF path # <<>> THEN Ok(<<Last(path)>>) ELSE Ok(Ellipsis)
        ELSE IF tool_name = "Bash" THEN
            IF ~input_ok THEN Raise ELSE Ok(TruncateCmd(tool_input.command))
        ELSE IF tool_name \in {"Grep", "Glob"} THEN
            IF ~input_ok THEN Raise
            ELSE Ok(IF tool_input.pattern # <<>> THEN tool_input.pattern
                                                 ELSE Ellipsis)
        ELSE IF tool_name = "Task" THEN
            IF ~input_ok THEN Raise
            ELSE Ok(IF tool_input.description # <<>>
                    THEN tool_input.description ELSE <<"task">>)
        ELSE Ok(<<>>)

----------------------------------------------------------------------------
(* format_age(seconds) *)

(* variant of format_age: minutes are used up to and including 60 *)
format_age_minutes_to_60(seconds) ==
    LET lang == get_messages("auto")
        minutes == seconds \div 60
        hours == minutes \div 60
    IN  IF seconds < 60 THEN Fmt("time_seconds_ago", lang, <<>>, seconds)
        ELSE IF minutes <= 60 THEN Fmt("time_minutes_ago", lang, <<>>, minutes)
        ELSE Fmt("time_hours_ago", lang, <<>>, hours)

format_age(seconds) ==
    LET lang == get_messages("auto")
        minutes == seconds \div 60
        hours == minutes \div 60
    IN  IF seconds < 60 THEN Fmt("time_seconds_ago", lang, <<>>, seconds)
        ELSE IF minutes < 60 THEN Fmt("time_minutes_ago", lang, <<>>, minutes)
        ELSE Fmt("time_hours_ago", lang, <<>>, hours)

----------------------------------------------------------------------------
(* _read_tail_lines(path, file_size).  The file's text is its lines, each  *)
(* followed by one line break; io_ok says whether open/seek/read succeed.  *)

Min(a, b) == IF a < b THEN a ELSE b

Max(a, b) == IF a > b THEN a ELSE b

RECURSIVE LineStart(_, _)
LineStart(f, i) == IF i = 1 THEN 0 ELSE LineStart(f, i - 1) + f[i - 1].bytes + 1

(* the offset of line i's line break *)
LineEnd(f, i) == LineStart(f, i) + f[i].bytes

FileSize(f) == IF f = <<>> THEN 0 ELSE LineEnd(f, Len(f)) + 1

ReadSize(size) == Min(TAIL_BYTES, size)

(* variant of SeekOffset: a read that resumes where the previous call on   *)
(* the same file ended                                                    *)
SeekOffsetAfterPrev(size) ==
    IF prev.valid /\ prev.file = file THEN size
    ELSE Max(0, size - ReadSize(size))

SeekOffset(size) == Max(0, size - ReadSize(size))

(* line i has bytes (at least its line break) in the window starting at off *)
InWindow(f, i, off) == LineEnd(f, i) >= off

(* the window holds nothing but whitespace of line i *)
BlankPiece(f, i, off) ==
    f[i].json = "blank" \/ LineEnd(f, i) = Max(LineStart(f, i), off)

(* data.decode().strip().splitlines(): the pieces between the first and    *)
(* the last one that is not blank                                          *)
StrippedLines(f, off) ==
    LET solid == {i \in 1..Len(f) : InWindow(f, i, off) /\ ~BlankPiece(f, i, off)}
    IN  IF solid = {} THEN <<>>
        ELSE LET lo == CHOOSE i \in solid : \A j \in solid : i <= j
                 hi == CHOOSE i \in solid : \A j \in solid : j <= i
             IN  [k \in 1..(hi - lo + 1) |->
                    [line |-> f[lo + k - 1],
                     whole |-> LineStart(f, lo + k - 1) >= off,
                     at |-> lo + k - 1]]

(* variant of DropFirst: the first line is kept when it is complete *)
DropFirstIfCut(size, ls) ==
    IF size > ReadSize(size) /\ ls # <<>> /\ ~ls[1].whole THEN Tail(ls) ELSE ls

(* lines[1:] when the read did not start at the head of the file *)
DropFirst(size, ls) ==
    IF size > ReadSize(size) /\ ls # <<>> THEN Tail(ls) ELSE ls

read_tail_lines(f, size, io_ok) ==
    IF ReadSize(size) <= 0 THEN <<>>
    ELSE IF ~io_ok THEN <<>>
    ELSE DropFirst(size, StrippedLines(f, SeekOffset(size)))

----------------------------------------------------------------------------
(* The backward scan (parse_agent_state, the loop over reversed(lines)).   *)
(* The record holds the loop's local variables; active_src and tool_src    *)
(* record where an active id and the tool name were taken from             *)
(* (<<line of the file, block>>), raised that an exception left the loop,  *)
(* broke that the loop ended in its break.                                 *)

NoSrc == <<0, 0>>

ScanInit ==
    [active_tool_ids |-> {}, completed_tool_ids |-> {},
     last_assistant_has_text |-> FALSE,
     last_tool_name |-> "", last_tool_status |-> EmptyText,
     model |-> <<>>, has_turn_duration |-> FALSE, has_progress |-> FALSE,
     active_src |-> {}, tool_src |-> NoSrc,
     raised |-> FALSE, broke |-> FALSE]

(* json.loads(line) fails *)
DecodeFails(x) == ~x.whole \/ x.line.json \in {"bad", "blank"}

(* json.loads(line) fails with an exception the loop does not catch *)
DecodeRaises(x) == x.whole /\ x.line.json = "deep"

Contains(s, tok) == \E i \in 1..Len(s) : s[i] = tok

NormalizeModel(msg_model) ==
    IF Contains(msg_model, "opus") THEN <<"opus">>
    ELSE IF Contains(msg_model, "sonnet") THEN <<"sonnet">>
    ELSE IF Contains(msg_model, "haiku") THEN <<"haiku">>
    ELSE msg_model

(* variant of ExtractModel: an older event's model replaces the one found *)
ExtractModelOverwrites(st, l) ==
    IF l.model # <<>>
    THEN [st EXCEPT !.model = NormalizeModel(l.model)]
    ELSE st

ExtractModel(st, l) ==
    IF st.model = <<>> /\ l.model # <<>>
    THEN [st EXCEPT !.model = NormalizeModel(l.model)]
    ELSE st

(* one tool_result candidate of a user message *)
UserBlock(st, b) ==
    IF st.raised \/ ~b.dict \/ b.type # "tool_result" THEN st
    ELSE IF b.id = UNHASHABLE THEN [st EXCEPT !.raised = TRUE]
    ELSE [st EXCEPT !.completed_tool_ids = @ \cup {b.id}]

(* variant of IsPending: the set of completed ids is not consulted *)
IsPendingUnchecked(st, tool_id) == TRUE

(* the tool_use branch: is the call still without a result? *)
IsPending(st, tool_id) == tool_id \notin st.completed_tool_ids

(* one block of an assistant message; src is <<line, block>> *)
(* variant of AssistantBlock: the name and status of the last pending      *)
(* tool_use of the event are kept, not those of the first                  *)
AssistantBlockLastWins(st, b, src) ==
    IF st.raised \/ ~b.dict THEN st
    ELSE IF b.type = "tool_use" THEN
        IF b.id = UNHASHABLE THEN [st EXCEPT !.raised = TRUE]
        ELSE IF ~IsPending(st, b.id) THEN st
        ELSE LET act == [st EXCEPT !.active_tool_ids = @ \cup {b.id},
                                   !.active_src = @ \cup {src}]
                 fmt == format_tool_status(b.name, b.input_ok, b.input)
             IN  IF fmt.raised THEN [act EXCEPT !.raised = TRUE]
                 ELSE [act EXCEPT !.last_tool_name = b.name,
                                  !.last_tool_status = fmt.text,
                                  !.tool_src = src]
    ELSE IF b.type = "text" THEN
        IF st.last_tool_name = "" /\ st.active_tool_ids = {}
        THEN [st EXCEPT !.last_assistant_has_text = TRUE]
        ELSE st
    ELSE st

AssistantBlock(st, b, src) ==
    IF st.raised \/ ~b.dict THEN st
    ELSE IF b.type = "tool_use" THEN
        IF b.id = UNHASHABLE THEN [st EXCEPT !.raised = TRUE]
        ELSE IF ~IsPending(st, b.id) THEN st
        ELSE LET act == [st EXCEPT !.active_tool_ids = @ \cup {b.id},
                                   !.active_src = @ \cup {src}]
                 fmt == format_tool_status(b.name, b.input_ok, b.input)
             IN  IF st.last_tool_name # "" THEN act
                 ELSE IF fmt.raised THEN [act EXCEPT !.raised = TRUE]
                 ELSE [act EXCEPT !.last_tool_name = b.name,
                                  !.last_tool_status = fmt.text,
                                  !.tool_src = src]
    ELSE IF b.type = "text" THEN
        IF st.last_tool_name = "" /\ st.active_tool_ids = {}
        THEN [st EXCEPT !.last_assistant_has_text = TRUE]
        ELSE st
    ELSE st

RECURSIVE UserBlocks(_, _, _)
UserBlocks(st, content, k) ==
    IF k > Len(content) THEN st
    ELSE UserBlocks(UserBlock(st, content[k]), content, k + 1)

RECURSIVE AssistantBlocks(_, _, _, _)
AssistantBlocks(st, content, at, k) ==
    IF k > Len(content) THEN st
    ELSE AssistantBlocks(AssistantBlock(st, content[k], <<at, k>>),
                         content, at, k + 1)

(* variant of EnoughFound: the loop breaks on an active tool only *)
EnoughFoundToolOnly(st) == st.active_tool_ids # {}

(* variant of EnoughFound: the loop breaks on assistant text only *)
EnoughFoundTextOnly(st) == st.last_assistant_has_text

(* variant of EnoughFound: the loop never breaks *)
EnoughFoundNever(st) == FALSE

(* the loop's break *)
EnoughFound(st) == st.active_tool_ids # {} \/ st.last_assistant_has_text

(* variant of SystemLine: a signal of one kind clears the other kind *)
SystemLineLatestOnly(st, subtype) ==
    IF subtype = "turn_duration"
    THEN [st EXCEPT !.has_turn_duration = TRUE, !.has_progress = FALSE]
    ELSE IF subtype \in PROGRESS_SUBTYPES
    THEN [st EXCEPT !.has_progress = TRUE, !.has_turn_duration = FALSE]
    ELSE st

(* the system branch *)
SystemLine(st, subtype) ==
    IF subtype = "turn_duration" THEN [st EXCEPT !.has_turn_duration = TRUE]
    ELSE IF subtype \in PROGRESS_SUBTYPES THEN [st EXCEPT !.has_progress = TRUE]
    ELSE st

(* one iteration of the loop, on the tail line x *)
ScanLine(st, x) ==
    LET l == x.line
    IN  IF DecodeFails(x) THEN st
        ELSE IF DecodeRaises(x) THEN [st EXCEPT !.raised = TRUE]
        ELSE IF l.json = "nonobj" THEN [st EXCEPT !.raised = TRUE]
        ELSE IF l.type = "system" THEN SystemLine(st, l.subtype)
        ELSE IF l.type = "user" THEN
            IF ~l.msg_ok THEN [st EXCEPT !.raised = TRUE]
            ELSE IF l.content_list THEN UserBlocks(st, l.content, 1)
            ELSE st
        ELSE IF l.type = "assistant" THEN
            IF ~l.msg_ok THEN [st EXCEPT !.raised = TRUE]
            ELSE LET m == ExtractModel(st, l)
                     c == IF l.content_list
                          THEN AssistantBlocks(m, l.content, x.at, 1) ELSE m
                 IN  IF ~c.raised /\ EnoughFound(c)
                     THEN [c EXCEPT !.broke = TRUE] ELSE c
        ELSE st

(* the loop as a whole: the lines ls[n], ls[n - 1], ... until the break,   *)
(* an exception or the first line                                          *)
RECURSIVE ScanFrom(_, _, _)
ScanFrom(st, ls, n) ==
    IF n = 0 \/ st.raised \/ st.broke THEN st
    ELSE ScanFrom(ScanLine(st, ls[n]), ls, n - 1)

----------------------------------------------------------------------------
(* AgentState and the classification (parse_agent_state, after the loop)   *)

AgentState(state, tool_name, status_text, last_update, model) ==
    [state |-> state, tool_name |-> tool_name, status_text |-> status_text,
     last_update |-> last_update, model |-> model]

(* variant of DefaultAgentState: last_update is the modification time *)
DefaultAgentStateAtMtime == AgentState(STATE_IDLE, "", EmptyText, mtime, <<>>)

(* AgentState(): every field at its default *)
DefaultAgentState == AgentState(STATE_IDLE, "", EmptyText, 0, <<>>)

NoState == AgentState("", "", EmptyText, 0, <<>>)

Msg(tpl) == Fmt(tpl, get_messages("auto"), <<>>, 0)

(* last_tool_status or last_tool_name *)
StatusOrName(st) ==
    IF st.last_tool_status # EmptyText THEN st.last_tool_status
    ELSE Raw(st.last_tool_name)

(* variant of IsStale: the threshold is the one of recent sessions *)
IsStaleRecent(a) == a > RECENT_THRESHOLD_S

IsStale(a) == a > IDLE_THRESHOLD_S

(* variant of StaleState: last_update is left at its default *)
StaleStateWithoutUpdate(a, mt) ==
    AgentState(STATE_IDLE, "", format_age(a), 0, <<>>)

StaleState(a, mt) == AgentState(STATE_IDLE, "", format_age(a), mt, <<>>)

(* variant of EmptyTailState: an empty tail is classified by its age *)
EmptyTailStateByAge(mt) ==
    IF now - mt < THINKING_WINDOW_S
    THEN AgentState(STATE_THINKING, "", Msg("status_thinking"), mt, <<>>)
    ELSE AgentState(STATE_IDLE, "", format_age(now - mt), mt, <<>>)

EmptyTailState(mt) == AgentState(STATE_IDLE, "", EmptyText, mt, <<>>)

(* variant of SuspectPermission: the timer is the idle threshold *)
SuspectPermissionIdleTimer(st, time_since_update) ==
    /\ st.last_tool_name \notin EXEMPT_TOOLS
    /\ ~st.has_progress
    /\ time_since_update > IDLE_THRESHOLD_S

(* variant of SuspectPermission: progress signals are not consulted *)
SuspectPermissionIgnoresProgress(st, time_since_update) ==
    /\ st.last_tool_name \notin EXEMPT_TOOLS
    /\ time_since_update > PERMISSION_TIMER_S

(* variant of SuspectPermission: the suspicion is dropped again once the   *)
(* session is no longer active                                             *)
SuspectPermissionBriefly(st, time_since_update) ==
    /\ st.last_tool_name \notin EXEMPT_TOOLS
    /\ ~st.has_progress
    /\ time_since_update > PERMISSION_TIMER_S
    /\ time_since_update <= ACTIVE_THRESHOLD_S

(* the permission heuristic of the classification *)
SuspectPermission(st, time_since_update) ==
    /\ st.last_tool_name \notin EXEMPT_TOOLS
    /\ ~st.has_progress
    /\ time_since_update > PERMISSION_TIMER_S

(* variant of InputWaitElapsed: the timer has elapsed at 5 s already *)
InputWaitElapsedAtTimer(time_since_update) ==
    time_since_update >= INPUT_WAIT_TIMER_S

(* the text heuristic's timer *)
InputWaitElapsed(time_since_update) == time_since_update > INPUT_WAIT_TIMER_S

(* variant of Classify: the text heuristic is consulted before the turn    *)
(* boundary                                                                *)
ClassifyTextBeforeTurnEnd(st, time_since_update, mt) ==
    IF st.active_tool_ids # {} THEN
        IF SuspectPermission(st, time_since_update)
        THEN AgentState(STATE_WAITING_PERMISSION, st.last_tool_name,
                        StatusOrName(st), mt, st.model)
        ELSE AgentState(STATE_WORKING, st.last_tool_name,
                        StatusOrName(st), mt, st.model)
    ELSE IF st.last_assistant_has_text THEN
        IF InputWaitElapsed(time_since_update)
        THEN AgentState(STATE_WAITING_INPUT, "", Msg("status_waiting_input"),
                        mt, st.model)
        ELSE AgentState(STATE_THINKING, "", Msg("status_responding"),
                        mt, st.model)
    ELSE IF st.has_turn_duration THEN
        AgentState(STATE_WAITING_INPUT, "", Msg("status_waiting_input"),
                   mt, st.model)
    ELSE IF time_since_update < THINKING_WINDOW_S THEN
        AgentState(STATE_THINKING, "", Msg("status_thinking"), mt, st.model)
    ELSE AgentState(STATE_IDLE, "", format_age(time_since_update), mt, st.model)

(* variant of Classify: the turn boundary is consulted before the active   *)
(* tool calls                                                              *)
ClassifyTurnEndBeforeTools(st, time_since_update, mt) ==
    IF st.has_turn_duration THEN
        AgentState(STATE_WAITING_INPUT, "", Msg("status_waiting_input"),
                   mt, st.model)
    ELSE IF st.active_tool_ids # {} THEN
        IF SuspectPermission(st, time_since_update)
        THEN AgentState(STATE_WAITING_PERMISSION, st.last_tool_name,
                        StatusOrName(st), mt, st.model)
        ELSE AgentState(STATE_WORKING, st.last_tool_name,
                        StatusOrName(st), mt, st.model)
    ELSE IF st.last_assistant_has_text THEN
        IF InputWaitElapsed(time_since_update)
        THEN AgentState(STATE_WAITING_INPUT, "", Msg("status_waiting_input"),
                        mt, st.model)
        ELSE AgentState(STATE_THINKING, "", Msg("status_responding"),
                        mt, st.model)
    ELSE IF time_since_update < THINKING_WINDOW_S THEN
        AgentState(STATE_THINKING, "", Msg("status_thinking"), mt, st.model)
    ELSE AgentState(STATE_IDLE, "", format_age(time_since_update), mt, st.model)

Classify(st, time_since_update, mt) ==
    IF st.active_tool_ids # {} THEN
        IF SuspectPermission(st, time_since_update)
        THEN AgentState(STATE_WAITING_PERMISSION, st.last_tool_name,
                        StatusOrName(st), mt, st.model)
        ELSE AgentState(STATE_WORKING, st.last_tool_name,
                        StatusOrName(st), mt, st.model)
    ELSE IF st.has_turn_duration THEN
        AgentState(STATE_WAITING_INPUT, "", Msg("status_waiting_input"),
                   mt, st.model)
    ELSE IF st.last_assistant_has_text THEN
        IF InputWaitElapsed(time_since_update)
        THEN AgentState(STATE_WAITING_INPUT, "", Msg("status_waiting_input"),
                        mt, st.model)
        ELSE AgentState(STATE_THINKING, "", Msg("status_responding"),
                        mt, st.model)
    ELSE IF time_since_update < THINKING_WINDOW_S THEN
        AgentState(STATE_THINKING, "", Msg("status_thinking"), mt, st.model)
    ELSE AgentState(STATE_IDLE, "", format_age(time_since_update), mt, st.model)

(* parse_agent_state as a whole, on the file f with modification time mt,  *)
(* the clock reading a - mt at the staleness check and t - mt at the       *)
(* classification, when stat and read succeed; NoState when it raises      *)
ParseAgentState(f, mt, a, t) ==
    IF IsStale(a) THEN StaleState(a, mt)
    ELSE LET ls == read_tail_lines(f, FileSize(f), TRUE)
         IN  IF ls = <<>> THEN EmptyTailState(mt)
             ELSE LET st == ScanFrom(ScanInit, ls, Len(ls))
                  IN  IF st.raised THEN NoState ELSE Classify(st, t, mt)

----------------------------------------------------------------------------
(* The logs the writer produces: well-formed events of two tool calls      *)
(* t1 and t2, an undecodable line, a line that is JSON but no object, and  *)
(* one tool result long enough to push older lines out of the tail window. *)

Lines ==
    { BadLine,
      NonObjLine,
      System("turn_duration"),
      System("bash_progress"),
      UserPrompt,
      User(<<ToolResult("t1")>>),
      User(<<ToolResult("t2")>>),
      Sized(User(<<ToolResult("t1")>>), 32666),
      Assistant(OPUS, <<TextBlock>>),
      Assistant(OPUS, <<ToolUse("t1", "Bash", BashLs)>>),
      Assistant(<<>>, <<ToolUse("t2", "Read", ReadFile)>>),
      Assistant(OPUS, <<ToolUse("t1", "Read", ReadFile),
                        ToolUse("t2", "Bash", BashLs)>>),
      Assistant(OPUS, <<TextBlock, ToolUse("t1", "Bash", BashLs)>>) }

----------------------------------------------------------------------------
(* State *)

NoPrev ==
    [valid |-> FALSE, file |-> <<>>, mtime |-> 0, now |-> 0, age |-> -1,
     tsu |-> -1,
     current_lang |-> "", env_lang |-> "", raised |-> FALSE,
     nstat |-> 0, nopen |-> 0, nbytes |-> 0, result |-> NoState]

LocalsInit ==
    /\ file_size = 0
    /\ age = -1
    /\ lines = <<>>
    /\ idx = 0
    /\ scan = ScanInit
    /\ tsu = -1
    /\ result = NoState
    /\ nstat = 0
    /\ nopen = 0
    /\ nbytes = 0
    /\ ticked = 0

Init ==
    /\ prev = NoPrev
    /\ projects = <<>>
    /\ sessions = <<>>
    /\ file = <<>>
    /\ mtime = StartTime
    /\ now = StartTime
    /\ current_lang = "auto"
    /\ env_lang = "en"
    /\ pc = "idle"
    /\ LocalsInit

env == << file, mtime, now, current_lang, env_lang >>

counters == << nstat, nopen, nbytes, ticked >>

scanner == << projects, sessions >>

----------------------------------------------------------------------------
(* The environment: the session's writer and the clock *)

(* the writer appends one line; st_mtime becomes the time of the write.    *)
(* Lines are written in one burst: what a poll sees is the content, the    *)
(* mtime and the clock, and every such triple is a burst followed by time. *)
Write(l) ==
    /\ pc = "idle"
    /\ now = mtime
    /\ Len(file) < MaxLines
    /\ file' = Append(file, l)
    /\ mtime' = now
    /\ UNCHANGED << now, current_lang, env_lang, pc, file_size, age, lines,
                    idx, scan, tsu, result, counters, prev >>
    /\ UNCHANGED scanner

LaterAges(points, a) == {p \in points : p > a}

NextAge(points, a) ==
    CHOOSE p \in LaterAges(points, a) : \A q \in LaterAges(points, a) : p <= q

(* time passes between two polls: the clock moves to the next age of       *)
(* `points`                                                                *)
Tick(points) ==
    /\ pc = "idle"
    /\ LaterAges(points, now - mtime) # {}
    /\ now' = mtime + NextAge(points, now - mtime)
    /\ UNCHANGED << file, mtime, current_lang, env_lang, pc, file_size, age,
                    lines, idx, scan, tsu, result, counters, prev >>
    /\ UNCHANGED scanner

(* time passes inside a call, between its two reads of the clock *)
TickInCall(points) ==
    /\ pc = "classify"
    /\ ticked < MaxTicksInCall
    /\ LaterAges(points, now - mtime) # {}
    /\ now' = mtime + NextAge(points, now - mtime)
    /\ ticked' = ticked + 1
    /\ UNCHANGED << file, mtime, current_lang, env_lang, pc, file_size, age,
                    lines, idx, scan, tsu, result, nstat, nopen, nbytes, prev >>
    /\ UNCHANGED scanner

----------------------------------------------------------------------------
(* parse_agent_state(jsonl_path), step by step *)

(* the two stat() calls, the first clock read and the staleness check.     *)
(* outcome: which of the two stat() calls fails, if any                    *)
Stat(outcome) ==
    /\ pc = "idle"
    /\ nstat' = IF outcome = "fail1" THEN 1 ELSE 2
    /\ IF outcome # "ok"
       THEN /\ result' = DefaultAgentState
            /\ pc' = "done"
            /\ UNCHANGED << file_size, age >>
       ELSE /\ file_size' = FileSize(file)
            /\ age' = now - mtime
            /\ IF IsStale(now - mtime)
               THEN /\ result' = StaleState(now - mtime, mtime)
                    /\ pc' = "done"
               ELSE /\ pc' = "read"
                    /\ UNCHANGED result
    /\ UNCHANGED << env, lines, idx, scan, tsu, nopen, nbytes, ticked, prev >>
    /\ UNCHANGED scanner

(* lines = _read_tail_lines(...), the empty check, the loop's locals *)
ReadTail(io_ok) ==
    /\ pc = "read"
    /\ LET ls == read_tail_lines(file, file_size, io_ok)
       IN  /\ lines' = ls
           /\ idx' = Len(ls)
           /\ IF ls = <<>>
              THEN /\ result' = EmptyTailState(mtime)
                   /\ pc' = "done"
              ELSE /\ pc' = "scan"
                   /\ UNCHANGED result
    /\ scan' = ScanInit
    /\ nopen' = IF ReadSize(file_size) <= 0 THEN 0 ELSE 1
    /\ nbytes' = IF ReadSize(file_size) <= 0 \/ ~io_ok THEN 0
                 ELSE ReadSize(file_size)
    /\ UNCHANGED << env, file_size, age, tsu, nstat, ticked, prev >>
    /\ UNCHANGED scanner

(* one iteration of  for line in reversed(lines) *)
ScanNext ==
    /\ pc = "scan"
    /\ idx > 0
    /\ LET st == ScanLine(scan, lines[idx])
       IN  /\ scan' = st
           /\ idx' = idx - 1
           /\ pc' = IF st.raised THEN "raised"
                    ELSE IF st.broke \/ idx = 1 THEN "classify"
                    ELSE "scan"
    /\ UNCHANGED << env, file_size, age, lines, tsu, result, counters, prev >>
    /\ UNCHANGED scanner

(* the second clock read and the decision *)
ClassifyStep ==
    /\ pc = "classify"
    /\ tsu' = now - mtime
    /\ result' = Classify(scan, now - mtime, mtime)
    /\ pc' = "done"
    /\ UNCHANGED << env, file_size, age, lines, idx, scan, counters, prev >>
    /\ UNCHANGED scanner

LocalsReset ==
    /\ file_size' = 0
    /\ age' = -1
    /\ lines' = <<>>
    /\ idx' = 0
    /\ scan' = ScanInit
    /\ tsu' = -1
    /\ result' = NoState
    /\ nstat' = 0
    /\ nopen' = 0
    /\ nbytes' = 0
    /\ ticked' = 0

(* the caller takes the returned state (or the exception); nothing of the  *)
(* call is kept                                                            *)
Discard ==
    /\ pc \in {"done", "raised"}
    /\ pc' = "idle"
    /\ LocalsReset
    /\ UNCHANGED << env, prev >>
    /\ UNCHANGED scanner

Next ==
    \/ \E l \in Lines : Write(l)
    \/ Tick(AgePoints)
    \/ \E outcome \in {"ok", "fail1", "fail2"} : Stat(outcome)
    \/ \E io_ok \in BOOLEAN : ReadTail(io_ok)
    \/ ScanNext
    \/ TickInCall(AgePoints)
    \/ ClassifyStep
    \/ Discard

Spec == Init /\ [][Next]_vars

----------------------------------------------------------------------------
(* A caller that polls the same file again and compares, and set_lang      *)

RepeatLines ==
    { System("turn_duration"),
      User(<<ToolResult("t1")>>),
      Assistant(OPUS, <<TextBlock>>),
      Assistant(OPUS, <<ToolUse("t1", "Bash", BashLs)>>) }

RepeatAges == {0, 2, 5, 6, 8, 120, 130}

(* the caller keeps what the call was given and what it returned *)
PollAgain ==
    /\ pc \in {"done", "raised"}
    /\ prev' = [valid |-> TRUE, file |-> file, mtime |-> mtime, now |-> now,
                age |-> age, tsu |-> tsu, current_lang |-> current_lang,
                env_lang |-> env_lang, raised |-> (pc = "raised"),
                nstat |-> nstat, nopen |-> nopen, nbytes |-> nbytes,
                result |-> result]
    /\ pc' = "idle"
    /\ LocalsReset
    /\ UNCHANGED env
    /\ UNCHANGED scanner

(* constants.set_lang(lang) *)
set_lang(lang) ==
    /\ pc = "idle"
    /\ current_lang' = lang
    /\ UNCHANGED << file, mtime, now, env_lang, pc, file_size, age, lines,
                    idx, scan, tsu, result, counters, prev >>
    /\ UNCHANGED scanner

NextRepeat ==
    \/ \E l \in RepeatLines : Write(l)
    \/ Tick(RepeatAges)
    \/ \E outcome \in {"ok", "fail1", "fail2"} : Stat(outcome)
    \/ \E io_ok \in BOOLEAN : ReadTail(io_ok)
    \/ ScanNext
    \/ TickInCall(RepeatAges)
    \/ ClassifyStep
    \/ PollAgain
    \/ \E lang \in {"auto", "ja"} : set_lang(lang)

SpecRepeat == Init /\ [][NextRepeat]_vars

----------------------------------------------------------------------------
(* Logs with lines that are JSON of an unexpected shape *)

NonDictBlock == [Block("", "", "", TRUE, NoInput) EXCEPT !.dict = FALSE]

HostileLines ==
    { NonObjLine,
      UserBadMessage,
      UserPrompt,
      User(<<NonDictBlock, ToolResult("t1")>>),
      User(<<ToolResult(UNHASHABLE)>>),
      [Assistant(OPUS, <<>>) EXCEPT !.msg_ok = FALSE],
      [Assistant(OPUS, <<>>) EXCEPT !.content_list = FALSE],
      Assistant(OPUS, <<NonDictBlock, TextBlock>>),
      Assistant(OPUS, <<Block("tool_use", "t1", "Bash", FALSE, NoInput)>>),
      Assistant(OPUS, <<Block("tool_use", "t1", "WebFetch", FALSE, NoInput)>>),
      Assistant(OPUS, <<ToolUse("", "Bash", BashLs)>>),
      Assistant(OPUS, <<ToolUse(UNHASHABLE, "Bash", BashLs)>>),
      Assistant(OPUS, <<ToolUse("t1", "Bash", BashLs)>>) }

NextHostile ==
    \/ \E l \in HostileLines : Write(l)
    \/ Tick(AgePoints)
    \/ \E outcome \in {"ok", "fail1", "fail2"} : Stat(outcome)
    \/ \E io_ok \in BOOLEAN : ReadTail(io_ok)
    \/ ScanNext
    \/ TickInCall(AgePoints)
    \/ ClassifyStep
    \/ Discard

SpecHostile == Init /\ [][NextHostile]_vars

----------------------------------------------------------------------------
(* Logs around the size of the tail window: blank lines, and lines long    *)
(* enough that the window starts inside a line, on the first byte of a     *)
(* line, or on a line break                                                *)

TailLines ==
    { BlankLine,
      Sized(BlankLine, 2),
      BadLine,
      Assistant(OPUS, <<TextBlock>>),
      Sized(UserPrompt, 99),
      Sized(User(<<ToolResult("t1")>>), 32666),
      Sized(User(<<ToolResult("t1")>>), 32667),
      Sized(User(<<ToolResult("t2")>>), 40000) }

NextTail ==
    \/ \E l \in TailLines : Write(l)
    \/ Tick(AgePoints)
    \/ \E outcome \in {"ok", "fail1", "fail2"} : Stat(outcome)
    \/ \E io_ok \in BOOLEAN : ReadTail(io_ok)
    \/ ScanNext
    \/ TickInCall(AgePoints)
    \/ ClassifyStep
    \/ Discard

SpecTail == Init /\ [][NextTail]_vars

----------------------------------------------------------------------------
(* Logs with lines that fail to decode *)

DecodeLines ==
    { BlankLine,
      BadLine,
      DeepLine,
      System("turn_duration"),
      User(<<ToolResult("t1")>>),
      Assistant(OPUS, <<TextBlock>>),
      Assistant(OPUS, <<ToolUse("t1", "Bash", BashLs)>>) }

NextDecode ==
    \/ \E l \in DecodeLines : Write(l)
    \/ Tick(AgePoints)
    \/ \E outcome \in {"ok", "fail1", "fail2"} : Stat(outcome)
    \/ \E io_ok \in BOOLEAN : ReadTail(io_ok)
    \/ ScanNext
    \/ TickInCall(AgePoints)
    \/ ClassifyStep
    \/ Discard

SpecDecode == Init /\ [][NextDecode]_vars

----------------------------------------------------------------------------
(* Logs with shell commands of lengths around BASH_CMD_MAX_LEN *)

CmdChars ==
    << "a", "b", "c", "d", "e", "f", "g", "h", "i", "j",
       "k", "l", "m", "n", "o", "p", "q", "r", "s", "t",
       "u", "v", "w", "x", "y", "z", "A", "B", "C", "D",
       "E", "F", "G", "H", "I", "J", "K", "L", "M", "N" >>

(* a command of n distinct characters *)
Cmd(n) == SubSeq(CmdChars, 1, n)

Bash(id, n) == ToolUse(id, "Bash", [NoInput EXCEPT !.command = Cmd(n)])

BashLines ==
    { System("bash_progress"),
      User(<<ToolResult("t1")>>),
      Assistant(OPUS, <<Bash("t1", 0)>>),
      Assistant(OPUS, <<Bash("t1", 30)>>),
      Assistant(OPUS, <<Bash("t1", 31)>>),
      Assistant(OPUS, <<ToolUse("t2", "Read", ReadFile), Bash("t1", 40)>>) }

NextBash ==
    \/ \E l \in BashLines : Write(l)
    \/ Tick(AgePoints)
    \/ \E outcome \in {"ok", "fail1", "fail2"} : Stat(outcome)
    \/ \E io_ok \in BOOLEAN : ReadTail(io_ok)
    \/ ScanNext
    \/ TickInCall(AgePoints)
    \/ ClassifyStep
    \/ Discard

SpecBash == Init /\ [][NextBash]_vars

----------------------------------------------------------------------------
(* Logs polled at ages around the units of format_age *)

FormatAges == {0, 2, 45, 59, 60, 125, 3599, 3600, 7201}

FormatLines ==
    { BadLine,
      UserPrompt,
      System("bash_progress"),
      Assistant(OPUS, <<TextBlock>>) }

NextFormat ==
    \/ \E l \in FormatLines : Write(l)
    \/ Tick(FormatAges)
    \/ \E outcome \in {"ok", "fail1", "fail2"} : Stat(outcome)
    \/ \E io_ok \in BOOLEAN : ReadTail(io_ok)
    \/ ScanNext
    \/ TickInCall(FormatAges)
    \/ ClassifyStep
    \/ Discard

SpecFormat == Init /\ [][NextFormat]_vars

----------------------------------------------------------------------------
(* Logs whose assistant events name different models *)

ModelNames ==
    { <<>>,
      OPUS,
      <<"claude", "sonnet", "4">>,
      <<"claude", "haiku", "3">>,
      <<"claude", "sonnet", "opus">>,
      <<"Claude", "OPUS", "4">>,
      <<"gpt", "4">> }

ModelLines ==
    {Assistant(m, <<>>) : m \in ModelNames}
        \cup {Assistant(<<>>, <<TextBlock>>), BadLine}

ModelAges == {0, 2, 6, 130}

NextModel ==
    \/ \E l \in ModelLines : Write(l)
    \/ Tick(ModelAges)
    \/ \E outcome \in {"ok", "fail1", "fail2"} : Stat(outcome)
    \/ \E io_ok \in BOOLEAN : ReadTail(io_ok)
    \/ ScanNext
    \/ TickInCall(ModelAges)
    \/ ClassifyStep
    \/ Discard

SpecModel == Init /\ [][NextModel]_vars

----------------------------------------------------------------------------

(* Logs whose tool calls carry long and multi-line arguments *)

LineBreak == "\n"

TwoLineCmd == <<"c", "d", " ", "x", LineBreak, "m", "a", "k", "e">>

StatusLines ==
    { System("bash_progress"),
      User(<<ToolResult("t1")>>),
      Assistant(OPUS, <<Bash("t1", 40)>>),
      Assistant(OPUS, <<ToolUse("t1", "Bash",
                                [NoInput EXCEPT !.command = TwoLineCmd])>>),
      Assistant(OPUS, <<ToolUse("t1", "Grep",
                                [NoInput EXCEPT !.pattern = Cmd(40)])>>),
      Assistant(OPUS, <<ToolUse("t1", "Task",
                                [NoInput EXCEPT !.description = Cmd(35)])>>),
      Assistant(OPUS, <<ToolUse("t1", "mcp__server__tool", NoInput)>>),
      Assistant(OPUS, <<ToolUse("t1", "WebFetch", NoInput)>>) }

NextStatus ==
    \/ \E l \in StatusLines : Write(l)
    \/ Tick(AgePoints)
    \/ \E outcome \in {"ok", "fail1", "fail2"} : Stat(outcome)
    \/ \E io_ok \in BOOLEAN : ReadTail(io_ok)
    \/ ScanNext
    \/ TickInCall(AgePoints)
    \/ ClassifyStep
    \/ Discard

SpecStatus == Init /\ [][NextStatus]_vars

----------------------------------------------------------------------------

(* Logs of system events of every subtype, and of events of other types *)

SignalLines ==
    { System("turn_duration"),
      System("bash_progress"),
      System("mcp_progress"),
      System("agent_progress"),
      System("api_error"),
      System(""),
      OtherLine,
      UserPrompt,
      BadLine,
      Assistant(OPUS, <<>>),
      Assistant(OPUS, <<TextBlock>>) }

SignalAges == {0, 8}

NextSignals ==
    \/ \E l \in SignalLines : Write(l)
    \/ Tick(SignalAges)
    \/ \E outcome \in {"ok", "fail1", "fail2"} : Stat(outcome)
    \/ \E io_ok \in BOOLEAN : ReadTail(io_ok)
    \/ ScanNext
    \/ TickInCall(SignalAges)
    \/ ClassifyStep
    \/ Discard

SpecSignals == Init /\ [][NextSignals]_vars

----------------------------------------------------------------------------

(* agent_scanner.scan_sessions(idle_timeout_min, show_all)                 *)

(* the cutoff of show_all, in minutes *)
SHOW_ALL_MIN == 30

MaxSessions == 3

(* what parse_agent_state works on: untouched by the session scanner *)
parser == << file, mtime, current_lang, env_lang, pc, file_size, age, lines,
             idx, scan, tsu, result, counters, prev >>

(* a file of a project directory below ~/.claude/projects: the directory   *)
(* `project`, the file name as a sequence of its pieces, and the file's    *)
(* st_mtime                                                                *)
Entry(project, name, mt) ==
    [project |-> project, name |-> name, mtime |-> mt]

(* project_dir.glob("*.jsonl") *)
IsJsonl(name) == Last(name) = ".jsonl"

(* "compact" in jsonl_file.name *)
IsCompact(name) == Contains(name, "compact")

Cutoff(idle_timeout_min, show_all) ==
    IF show_all THEN SHOW_ALL_MIN * 60 ELSE idle_timeout_min * 60

(* variant of IsAlive: a session of exactly 30 s counts as alive *)
IsAliveInclusive(a) == a <= ACTIVE_THRESHOLD_S

(* has_process *)
IsAlive(a) == a < ACTIVE_THRESHOLD_S

SessionInfo(e, t) ==
    [jsonl_path |-> << e.project, e.name >>,
     session_id |-> SubSeq(e.name, 1, Len(e.name) - 1),
     project_dir |-> e.project,
     mtime |-> e.mtime,
     has_process |-> IsAlive(t - e.mtime),
     age_seconds |-> t - e.mtime]

(* the two loops: the entries ps[k..] that become candidates at time t;    *)
(* gone: the positions of the files whose stat() raises OSError            *)
RECURSIVE Candidates(_, _, _, _, _)
Candidates(ps, k, t, cutoff, gone) ==
    IF k > Len(ps) THEN <<>>
    ELSE LET e == ps[k]
             rest == Candidates(ps, k + 1, t, cutoff, gone)
         IN  IF ~IsJsonl(e.name) \/ IsCompact(e.name) THEN rest
             ELSE IF k \in gone THEN rest
             ELSE IF t - e.mtime > cutoff THEN rest
             ELSE << SessionInfo(e, t) >> \o rest

(* list.sort(key=mtime, reverse=True): a stable sort, so x goes behind the *)
(* elements that are as new as x                                           *)
RECURSIVE InsertByMtime(_, _)
InsertByMtime(sorted, x) ==
    IF sorted = <<>> THEN << x >>
    ELSE IF Head(sorted).mtime >= x.mtime
         THEN << Head(sorted) >> \o InsertByMtime(Tail(sorted), x)
         ELSE << x >> \o sorted

RECURSIVE SortNewestFirst(_, _)
SortNewestFirst(c, k) ==
    IF k = 0 THEN <<>>
    ELSE InsertByMtime(SortNewestFirst(c, k - 1), c[k])

(* the offsets at which the clock is read, around 30 s, 10, 20 and 30 min  *)
SessionClock == {0, 1, 31, 601, 1801}

SessionFiles ==
    { << "p1", << "s1", ".jsonl" >> >>,
      << "p1", << "s2", ".jsonl" >> >>,
      << "p2", << "s1", "-", "compact", ".jsonl" >> >>,
      << "p2", << "notes", ".txt" >> >> }

Exists(project, name) ==
    \E i \in 1..Len(projects) :
        projects[i].project = project /\ projects[i].name = name

(* a session starts, or any other file appears below the directory; the    *)
(* directory lists it before or behind the entries it has (iterdir() and   *)
(* glob() promise no order)                                                *)
NewSession(f, first) ==
    /\ Len(projects) < MaxSessions
    /\ ~Exists(f[1], f[2])
    /\ projects' = IF first
                   THEN << Entry(f[1], f[2], now) >> \o projects
                   ELSE Append(projects, Entry(f[1], f[2], now))
    /\ UNCHANGED << now, sessions, parser >>

TickSessions ==
    /\ LaterAges(SessionClock, now - StartTime) # {}
    /\ now' = StartTime + NextAge(SessionClock, now - StartTime)
    /\ UNCHANGED << projects, sessions, parser >>

(* a directory that does not exist gives the result of an empty one *)
scan_sessions(idle_timeout_min, show_all, gone) ==
    /\ UNCHANGED << now, projects, parser >>
    /\ LET c == Candidates(projects, 1, now,
                           Cutoff(idle_timeout_min, show_all), gone)
       IN  sessions' = SortNewestFirst(c, Len(c))

NextSessions ==
    \/ \E f \in SessionFiles, first \in BOOLEAN : NewSession(f, first)
    \/ TickSessions
    \/ \E idle_timeout_min \in {10, 20}, show_all \in BOOLEAN,
          gone \in {{}, {1}} :
              scan_sessions(idle_timeout_min, show_all, gone)

SpecSessions == Init /\ [][NextSessions]_vars

----------------------------------------------------------------------------

(* Logs whose assistant events hold several tool_use blocks, one of them   *)
(* without a name                                                          *)

BlockLines ==
    { System("bash_progress"),
      User(<<ToolResult("t1")>>),
      User(<<ToolResult("t2")>>),
      User(<<ToolResult("t1"), ToolResult("t2")>>),
      Assistant(OPUS, <<ToolUse("t3", "Bash", BashLs)>>),
      Assistant(OPUS, <<ToolUse("t1", "Bash", BashLs),
                        ToolUse("t2", "Read", ReadFile)>>),
      Assistant(OPUS, <<ToolUse("t1", "", NoInput),
                        ToolUse("t2", "Read", ReadFile),
                        ToolUse("t3", "Bash", BashLs)>>) }

BlockAges == {0, 7, 8, 130}

NextBlocks ==
    \/ \E l \in BlockLines : Write(l)
    \/ Tick(BlockAges)
    \/ \E outcome \in {"ok", "fail1", "fail2"} : Stat(outcome)
    \/ \E io_ok \in BOOLEAN : ReadTail(io_ok)
    \/ ScanNext
    \/ TickInCall(BlockAges)
    \/ ClassifyStep
    \/ Discard

SpecBlocks == Init /\ [][NextBlocks]_vars

----------------------------------------------------------------------------

(* Vocabulary of the properties *)

(* the call has returned an AgentState *)
Returned == pc = "done"

(* ... after the stat succeeded *)
StatSucceeded == Returned /\ age >= 0

(* ... after the scan and the classification *)
Classified == Returned /\ tsu >= 0

(* the read of the tail was made and did not fail *)
ReadSucceeded == nopen = 1 /\ nbytes > 0

(* the call returned and neither its stat nor its read (if made) failed *)
ReturnedWithoutIoError == StatSucceeded /\ (nopen = 1 => nbytes > 0)

IsEvent(l, type) == l.json = "obj" /\ l.type = type

(* the blocks the scan looks at in an event of the given type *)
BlocksOf(l, type) ==
    IF IsEvent(l, type) /\ l.msg_ok /\ l.content_list
    THEN {k \in 1..Len(l.content) : l.content[k].dict}
    ELSE {}

HasResultFor(l, id) ==
    \E k \in BlocksOf(l, "user") :
        l.content[k].type = "tool_result" /\ l.content[k].id = id

IsToolUse(l, k) == k \in BlocksOf(l, "assistant") /\ l.content[k].type = "tool_use"

(* the log holds a tool_use of a tool that is not exempt, and no           *)
(* tool_result for its id                                                  *)
HoldsPendingNonExempt(f) ==
    \E i \in 1..Len(f) : \E k \in 1..Len(f[i].content) :
        /\ IsToolUse(f[i], k)
        /\ f[i].content[k].name \notin EXEMPT_TOOLS
        /\ \A j \in 1..Len(f) : ~HasResultFor(f[j], f[i].content[k].id)

IsProgress(l) == IsEvent(l, "system") /\ l.subtype \in PROGRESS_SUBTYPES

IsTurnEnd(l) == IsEvent(l, "system") /\ l.subtype = "turn_duration"

HoldsProgress(f) == \E i \in 1..Len(f) : IsProgress(f[i])

Text(tpl) == Fmt(tpl, "en", <<>>, 0)

----------------------------------------------------------------------------
(* C1, as stated: every log that holds a pending tool-use of a tool that   *)
(* is not exempt, read without a progress signal seen and with             *)
(* now - mtime > 7, gives WaitingPermission.                               *)
C1_AsStated ==
    ( /\ ReturnedWithoutIoError
      /\ HoldsPendingNonExempt(file)
      /\ ~scan.has_progress
      /\ now - mtime > PERMISSION_TIMER_S )
    => result.state = STATE_WAITING_PERMISSION

(* C1, amended: when the file is not stale at the staleness check and the  *)
(* scan ends with active ids whose reported tool (last_tool_name) is not   *)
(* exempt, without a progress signal seen, and now - mtime > 7 at the      *)
(* classification, the call returns WaitingPermission for that tool.       *)
C1_PendingToolWaitsForPermission ==
    ( /\ Classified
      /\ scan.active_tool_ids # {}
      /\ scan.last_tool_name \notin EXEMPT_TOOLS
      /\ ~scan.has_progress
      /\ tsu > 7 )
    => /\ result.state = "waiting_permission"
       /\ result.tool_name = scan.last_tool_name
       /\ age <= 120

C1_Witness ==
    /\ Classified
    /\ file = <<Assistant(OPUS, <<ToolUse("t1", "Bash", BashLs)>>)>>
    /\ tsu = 8
    /\ scan.active_tool_ids = {"t1"}
    /\ result.state = "waiting_permission"
    /\ result.tool_name = "Bash"

----------------------------------------------------------------------------
(* C2, as stated: the same log with a progress signal anywhere in it gives *)
(* Working (read here for a file that is not stale).                       *)
C2_AsStated ==
    ( /\ ReturnedWithoutIoError
      /\ HoldsPendingNonExempt(file)
      /\ HoldsProgress(file)
      /\ now - mtime > PERMISSION_TIMER_S
      /\ now - mtime <= IDLE_THRESHOLD_S )
    => result.state = STATE_WORKING

(* the lines of the file that are newer than every line an active id was   *)
(* taken from                                                              *)
NewerThanActive ==
    {j \in 1..Len(file) : \A src \in scan.active_src : j > src[1]}

(* C2, amended: when the file is not stale and the scan ends with active   *)
(* ids and a progress signal seen, the call returns Working, whatever      *)
(* now - mtime is; and a progress signal is seen with an active tool only  *)
(* if a progress event lies later in the file than the tool-use's line.    *)
C2_ProgressKeepsWorking ==
    ( /\ Classified
      /\ scan.active_tool_ids # {} )
    => /\ scan.has_progress =>
            /\ result.state = "working"
            /\ result.tool_name = scan.last_tool_name
       /\ scan.has_progress <=> \E j \in NewerThanActive : IsProgress(file[j])

C2_Witness ==
    /\ Classified
    /\ file = << Assistant(OPUS, <<ToolUse("t1", "Bash", BashLs)>>),
                 System("bash_progress") >>
    /\ tsu = 8
    /\ scan.last_tool_name = "Bash"
    /\ result.state = "working"

----------------------------------------------------------------------------
(* the tool_use blocks of the tail's lines, as <<line of the file, block>> *)
ToolUsesInTail ==
    {src \in (1..Len(file)) \X (1..2) :
        /\ \E n \in 1..Len(lines) : lines[n].at = src[1]
        /\ IsToolUse(file[src[1]], src[2])}

IdOf(src) == file[src[1]].content[src[2]].id

(* the block is not what the scan reports: it put no id into the active    *)
(* set, and the tool name and status are not taken from it                 *)
NotReported(src) == src \notin scan.active_src /\ scan.tool_src # src

(* C3, as stated: a tool-use whose id appears in a tool_result block of a  *)
(* decoded line of the tail at or after the tool-use's line in scan order  *)
(* (the scan runs from the newest line to the oldest, so: on its line or   *)
(* on an older line) is never reported as the active tool.                 *)
C3_AsStated ==
    Classified =>
        \A src \in ToolUsesInTail :
            (\E j \in 1..src[1] : HasResultFor(file[j], IdOf(src))
                                  /\ \E n \in 1..Len(lines) : lines[n].at = j)
            => /\ IdOf(src) \notin scan.active_tool_ids
               /\ NotReported(src)

(* C3, amended: at every point of a call, a tool_use block of the tail     *)
(* whose id appears in a tool_result block of a user event on a newer line *)
(* (one the scan visits before the tool-use's line) is never reported: the *)
(* block puts no id into the active set and the tool name and status are   *)
(* not taken from it.                                                      *)
C3_CompletedToolNeverReported ==
    \A src \in ToolUsesInTail :
        (\E j \in (src[1] + 1)..Len(file) : HasResultFor(file[j], IdOf(src)))
        => NotReported(src)

C3_Witness ==
    /\ Classified
    /\ file = << Assistant(OPUS, <<ToolUse("t1", "Read", ReadFile),
                                   ToolUse("t2", "Bash", BashLs)>>),
                 User(<<ToolResult("t1")>>) >>
    /\ scan.completed_tool_ids = {"t1"}
    /\ scan.active_tool_ids = {"t2"}
    /\ scan.tool_src = <<1, 2>>
    /\ result.tool_name = "Bash"

----------------------------------------------------------------------------
(* C4, as stated: parse_agent_state never raises; whatever the file holds, *)
(* the call ends by returning an AgentState.                               *)
C4_NeverRaises == pc # "raised"

----------------------------------------------------------------------------
(* the call at hand and the caller's previous call were given the same     *)
(* file with the same modification time, ran at the same clock values      *)
(* (at the staleness check and at the return) and met the same outcomes of *)
(* stat and read                                                           *)
SameCallAgain ==
    /\ prev.valid /\ ~prev.raised /\ Returned
    /\ prev.file = file /\ prev.mtime = mtime
    /\ prev.age = age /\ prev.now = now
    /\ prev.nstat = nstat /\ prev.nopen = nopen /\ prev.nbytes = nbytes

SameLanguage ==
    prev.current_lang = current_lang /\ prev.env_lang = env_lang

WithoutLang(text) == [text EXCEPT !.lang = ""]

----------------------------------------------------------------------------
(* C6: whenever now - mtime > 120 at the staleness check, the call returns *)
(* Idle with the formatted age as status (130 s: "2m ago"), an empty tool  *)
(* name and model and last_update = mtime, and the file is neither opened  *)
(* nor read, whatever the log holds.                                       *)
C6_StaleFileIsIdleUnread ==
    ( Returned /\ age > 120 )
    => /\ result.state = "idle"
       /\ result.tool_name = ""
       /\ result.model = <<>>
       /\ result.last_update = mtime
       /\ result.status_text =
              [tpl |-> "time_minutes_ago", lang |-> "en", arg |-> <<>>,
               n |-> age \div 60]
       /\ age = 130 => result.status_text.n = 2
       /\ nopen = 0 /\ nbytes = 0 /\ lines = <<>>

C6_Witness ==
    /\ Returned
    /\ age = 130
    /\ file = <<Assistant(OPUS, <<ToolUse("t1", "Bash", BashLs)>>)>>
    /\ result.state = "idle"
    /\ result.status_text.tpl = "time_minutes_ago" /\ result.status_text.n = 2
    /\ nstat = 2 /\ nopen = 0

----------------------------------------------------------------------------
(* the scan ended on an assistant event with text, without an active tool  *)
(* id and without a turn boundary seen                                     *)
TextOnlySeen ==
    /\ Classified
    /\ scan.last_assistant_has_text
    /\ scan.active_tool_ids = {}
    /\ ~scan.has_turn_duration

(* the caller's previous call read the same file when it was 2 s old, and  *)
(* this one when it was 8 s old                                            *)
SameFileAt2ThenAt8 ==
    /\ prev.valid /\ ~prev.raised
    /\ prev.file = file /\ prev.mtime = mtime
    /\ prev.tsu = 2 /\ tsu = 8

(* C7: when the scan ends on a text-only assistant event with no active    *)
(* tool id and no turn boundary seen (as it does when the newest line of   *)
(* the log is such an event), the call returns Thinking with the           *)
(* "responding" phrase while now - mtime <= 5 and WaitingInput with the    *)
(* "waiting for input" phrase once now - mtime > 5; the same file read at  *)
(* age 2 and then at age 8 gives Thinking, then WaitingInput.              *)
C7_TextOnlyThinkingThenWaitingInput ==
    /\ ( Classified /\ file # <<>> /\ Last(file) = Assistant(OPUS, <<TextBlock>>) )
       => TextOnlySeen
    /\ TextOnlySeen =>
        /\ result.tool_name = ""
        /\ tsu <= 5 => /\ result.state = "thinking"
                       /\ result.status_text = Text("status_responding")
        /\ tsu > 5 => /\ result.state = "waiting_input"
                      /\ result.status_text = Text("status_waiting_input")
    /\ ( TextOnlySeen /\ SameFileAt2ThenAt8 )
       => /\ prev.result.state = "thinking"
          /\ prev.result.status_text = Text("status_responding")
          /\ result.state = "waiting_input"

C7_Witness ==
    /\ TextOnlySeen
    /\ SameFileAt2ThenAt8
    /\ file = <<Assistant(OPUS, <<TextBlock>>)>>
    /\ prev.result.state = "thinking"
    /\ result.state = "waiting_input"

----------------------------------------------------------------------------
(* the scan has visited a turn_duration event *)
TurnEndScanned ==
    \E n \in (idx + 1)..Len(lines) : IsTurnEnd(lines[n].line)

(* C8: when the scan ends without an active tool id and has seen a turn    *)
(* boundary (a system event of subtype turn_duration among the lines it    *)
(* visited), the call returns WaitingInput with the "waiting for input"    *)
(* phrase at every age, also when the last assistant event is text-only    *)
(* and now - mtime <= 5.                                                   *)
C8_TurnBoundaryOverridesText ==
    Classified =>
        /\ TurnEndScanned => scan.has_turn_duration
        /\ ( scan.active_tool_ids = {} /\ scan.has_turn_duration )
           => /\ result.state = "waiting_input"
              /\ result.status_text = Text("status_waiting_input")
              /\ result.tool_name = ""

C8_Witness ==
    /\ Classified
    /\ file = << Assistant(OPUS, <<TextBlock>>), System("turn_duration") >>
    /\ tsu = 2
    /\ scan.last_assistant_has_text
    /\ scan.has_turn_duration
    /\ result.state = "waiting_input"

----------------------------------------------------------------------------
(* where in the file the lines of a tail come from *)
At(ls) == [n \in 1..Len(ls) |-> ls[n].at]

(* the sequence lo, lo + 1, ..., hi *)
Range(lo, hi) == [n \in 1..(hi - lo + 1) |-> lo + n - 1]

(* the lines with a byte that is not whitespace at or after offset off *)
SolidFrom(off) ==
    {i \in 1..Len(file) : file[i].json # "blank" /\ LineEnd(file, i) > off}

FirstOf(S) == CHOOSE i \in S : \A j \in S : i <= j

LastOf(S) == CHOOSE i \in S : \A j \in S : j <= i

(* the offset of the first byte of the tail window *)
WindowStart == IF file_size > 32768 THEN file_size - 32768 ELSE 0

(* C9, as stated: _read_tail_lines (when its read succeeds, on a file that  *)
(* holds a line that is not blank) returns all the lines of a file of      *)
(* 32768 bytes or fewer, the first included; of a larger file it returns   *)
(* the lines recovered from the window without the first of them.          *)
C9_AsStated ==
    ( ReadSucceeded /\ SolidFrom(0) # {} ) =>
        /\ file_size <= 32768 => At(lines) = Range(1, Len(file))
        /\ file_size > 32768 =>
              \/ SolidFrom(WindowStart) = {} /\ lines = <<>>
              \/ /\ SolidFrom(WindowStart) # {}
                 /\ At(lines) = Range(FirstOf(SolidFrom(WindowStart)) + 1,
                                      LastOf(SolidFrom(WindowStart)))

(* C9, amended: when the read succeeds, _read_tail_lines strips the        *)
(* whitespace around the text of the window before it splits it.  Of a     *)
(* file of 32768 bytes or fewer it returns every line from the first line  *)
(* that is not blank to the last one that is not, the first of these       *)
(* included; of a larger file it reads the last 32768 bytes and drops the  *)
(* first of the lines recovered that way, also when that line is complete  *)
(* because the window starts on a line boundary.  Every line returned is a *)
(* complete line of the file.                                              *)
C9_TailBoundary ==
    ReadSucceeded =>
        LET solid == SolidFrom(WindowStart)
        IN  /\ nbytes = IF file_size > 32768 THEN 32768 ELSE file_size
            /\ solid = {} => lines = <<>>
            /\ ( solid # {} /\ file_size <= 32768 )
               => At(lines) = Range(FirstOf(solid), LastOf(solid))
            /\ ( solid # {} /\ file_size > 32768 )
               => At(lines) = Range(FirstOf(solid) + 1, LastOf(solid))
            /\ \A n \in 1..Len(lines) :
                  /\ lines[n].whole
                  /\ lines[n].line = file[lines[n].at]

(* a file of 32869 bytes whose window starts on the first byte of its      *)
(* second line: the second line is dropped though it is complete           *)
C9_Witness ==
    /\ ReadSucceeded
    /\ Len(file) = 3
    /\ file_size > 32768
    /\ WindowStart = LineStart(file, 2)
    /\ file[2].json # "blank"
    /\ At(lines) = <<3>>

----------------------------------------------------------------------------
(* a stat() call of the call at hand failed *)
StatFailed == Returned /\ age < 0

(* C10: when the size or the modification time of the file cannot be       *)
(* obtained, the call returns the default state: Idle, with tool_name,     *)
(* status_text and model empty and last_update 0; the file is neither      *)
(* opened nor read.                                                        *)
C10_StatFailureIsDefaultIdle ==
    StatFailed =>
        /\ result.state = "idle"
        /\ result.tool_name = ""
        /\ result.status_text = Raw("")
        /\ result.model = <<>>
        /\ result.last_update = 0
        /\ nopen = 0 /\ nbytes = 0 /\ lines = <<>>

C10_Witness ==
    /\ StatFailed
    /\ nstat = 2
    /\ file = <<Assistant(OPUS, <<ToolUse("t1", "Bash", BashLs)>>)>>
    /\ now - mtime = 2
    /\ result.state = "idle"
    /\ result.last_update = 0

----------------------------------------------------------------------------
(* the tail read of the call at hand produced no lines: the file is empty, *)
(* the read failed, the window holds only whitespace, or the file is       *)
(* larger than the window and the window holds one line, which is dropped  *)
TailReadEmpty ==
    /\ Returned
    /\ StatSucceeded
    /\ age <= 120
    /\ \/ file_size = 0
       \/ nopen = 1 /\ nbytes = 0
       \/ SolidFrom(WindowStart) = {}
       \/ file_size > 32768 /\ Cardinality(SolidFrom(WindowStart)) = 1

(* C11: when the tail read produces no lines, the call returns Idle with   *)
(* empty status text, tool name and model and last_update = mtime, at      *)
(* every age up to the idle threshold; an empty file is not even opened.   *)
C11_EmptyTailIsIdle ==
    TailReadEmpty =>
        /\ lines = <<>>
        /\ tsu = -1
        /\ result.state = "idle"
        /\ result.tool_name = ""
        /\ result.status_text = Raw("")
        /\ result.model = <<>>
        /\ result.last_update = mtime
        /\ file_size = 0 => nopen = 0

(* a fresh file of one 40001-byte line: the window lies inside the line *)
C11_Witness ==
    /\ TailReadEmpty
    /\ Len(file) = 1
    /\ file_size = 40001
    /\ nbytes = 32768
    /\ now - mtime = 0
    /\ result.state = "idle"
    /\ result.status_text = Raw("")

----------------------------------------------------------------------------
(* the scan of the call at hand has ended: by its break, at the oldest     *)
(* line, or in an exception                                                *)
ScanEnded == pc \in {"classify", "raised"} \/ Classified

(* json.loads fails on the line, with whatever exception *)
Malformed(x) == DecodeFails(x) \/ DecodeRaises(x)

WellFormed(x) == ~Malformed(x)

(* json.loads fails on the line with JSONDecodeError *)
Decodable(x) == ~DecodeFails(x)

(* C12, as stated: a line that fails to decode is skipped and changes      *)
(* nothing: when the scan has ended, what it has observed is what a scan   *)
(* of the same lines without the malformed ones observes.                  *)
C12_MalformedLinesChangeNothing ==
    ScanEnded =>
        scan = ScanFrom(ScanInit, SelectSeq(lines, WellFormed),
                        Len(SelectSeq(lines, WellFormed)))

(* the part of C12 that holds: the lines on which json.loads fails with    *)
(* JSONDecodeError change nothing                                          *)
SkippedLinesChangeNothing ==
    ScanEnded =>
        scan = ScanFrom(ScanInit, SelectSeq(lines, Decodable),
                        Len(SelectSeq(lines, Decodable)))

----------------------------------------------------------------------------
(* the command of the tool_use block the reported tool was taken from *)
ReportedCommand == file[scan.tool_src[1]].content[scan.tool_src[2]].input.command

(* the first 30 characters and "..." of a longer command, else the command *)
Shown(cmd) ==
    IF Len(cmd) <= 30 THEN cmd
    ELSE [n \in 1..31 |-> IF n <= 30 THEN cmd[n] ELSE "..."]

(* C13: when the reported active tool is Bash, the status is the "running" *)
(* template applied to the command, cut to its first 30 characters plus    *)
(* "..." when it is longer than 30 and whole otherwise; at                 *)
(* now - mtime = 10 without a progress signal the result is                *)
(* WaitingPermission with that status and tool name Bash.                  *)
C13_BashStatusIsTruncatedCommand ==
    ( Classified /\ scan.active_tool_ids # {} /\ scan.last_tool_name = "Bash" )
    => /\ result.status_text =
              [tpl |-> "tool_running", lang |-> "en",
               arg |-> Shown(ReportedCommand), n |-> 0]
       /\ result.tool_name = "Bash"
       /\ ( tsu = 10 /\ ~scan.has_progress )
          => result.state = "waiting_permission"

C13_Witness ==
    /\ Classified
    /\ file = <<Assistant(OPUS, <<Bash("t1", 31)>>)>>
    /\ tsu = 10
    /\ result.state = "waiting_permission"
    /\ result.tool_name = "Bash"
    /\ Len(result.status_text.arg) = 31
    /\ result.status_text.arg[30] = "D"
    /\ result.status_text.arg[31] = "..."

----------------------------------------------------------------------------
(* the call returned a formatted age: of a stale file, or of a file in     *)
(* which the scan found nothing and that is 3 s old or older               *)
AgeFormatted ==
    /\ Returned
    /\ \/ age > 120
       \/ /\ Classified
          /\ scan.active_tool_ids = {}
          /\ ~scan.has_turn_duration
          /\ ~scan.last_assistant_has_text
          /\ tsu >= 3

(* the age that was formatted *)
FormattedAge == IF age > 120 THEN age ELSE tsu

(* the largest n with n * unit <= a *)
Floor(a, unit) == CHOOSE n \in 0..a : n * unit <= a /\ a < (n + 1) * unit

(* C14: format_age renders an age as its floor in one unit: seconds below  *)
(* 60, whole minutes from 60 to 3599, whole hours from 3600 on; 45 gives   *)
(* "45s ago", 125 gives "2m ago", 7201 gives "2h ago".                     *)
C14_FormatAgeUnits ==
    AgeFormatted =>
        LET a == FormattedAge
            t == result.status_text
        IN  /\ t.lang = "en" /\ t.arg = <<>>
            /\ a < 60 => t.tpl = "time_seconds_ago" /\ t.n = a
            /\ ( 60 <= a /\ a < 3600 )
               => t.tpl = "time_minutes_ago" /\ t.n = Floor(a, 60)
            /\ a >= 3600 => t.tpl = "time_hours_ago" /\ t.n = Floor(a, 3600)
            /\ a = 45 => t.n = 45
            /\ a = 125 => t.n = 2
            /\ a = 7201 => t.n = 2

C14_Witness ==
    /\ AgeFormatted
    /\ FormattedAge = 7201
    /\ result.status_text.tpl = "time_hours_ago"
    /\ result.status_text.n = 2

(* the seconds unit is in use as well: a fresh log without anything the    *)
(* scan looks for, 45 s old                                                *)
C14_SecondsReached ==
    /\ AgeFormatted
    /\ FormattedAge = 45
    /\ result.status_text.tpl = "time_seconds_ago"

----------------------------------------------------------------------------
(* the file is opened at most once per call, and at most                   *)
(* min(32768, file_size) bytes of it are read                              *)
OneBoundedRead ==
    /\ nopen <= 1
    /\ nbytes <= 32768
    /\ nbytes <= file_size
    /\ nbytes > 0 => nopen = 1

(* C15, as stated: one call performs one stat and at most one read of the  *)
(* file, of at most 32768 bytes, whatever the size of the file.            *)
C15_OneStatOneBoundedRead ==
    /\ nstat <= 1
    /\ OneBoundedRead

----------------------------------------------------------------------------
(* the log from its line j on *)
Suffix(j) == SubSeq(file, j, Len(file))

(* what the tail read returns of the log f *)
TailOf(f) == read_tail_lines(f, FileSize(f), TRUE)

(* line n of the tail ls is an assistant event that leaves the scan with   *)
(* an active id or with lastAssistantHasText: it holds a text block, or a  *)
(* tool_use block without a tool_result on a newer line of the tail        *)
StopsScan(ls, n) ==
    \E k \in BlocksOf(ls[n].line, "assistant") :
        LET b == ls[n].line.content[k]
        IN  \/ b.type = "text"
            \/ /\ b.type = "tool_use"
               /\ \A m \in (n + 1)..Len(ls) : ~HasResultFor(ls[m].line, b.id)

(* the newest such line of the tail, 0 if there is none *)
StopOf(ls) ==
    LET S == {n \in 1..Len(ls) : StopsScan(ls, n)}
    IN  IF S = {} THEN 0 ELSE CHOOSE n \in S : \A m \in S : m <= n

(* C16, as stated: the returned state is independent of every line older   *)
(* than the assistant event at which the scan stops: a log that agrees     *)
(* with the log at hand from that event to the end of the file gives the   *)
(* same result for the same mtime and the same clock readings.             *)
C16_AsStated ==
    Classified =>
        \A j \in 1..Len(file) :
            StopOf(TailOf(Suffix(j))) # 0
            => ParseAgentState(Suffix(j), mtime, age, tsu) = result

(* C16, amended: the scan stops right after the newest assistant event of  *)
(* the lines the tail read returned that leaves an active id or            *)
(* lastAssistantHasText, and visits no older line; two logs that agree     *)
(* from that event to the end of the file give the same result for the     *)
(* same mtime and clock readings provided the tail read returns that event *)
(* for both of them (the size of the older part decides where the window   *)
(* starts and which line is dropped as the first).                         *)
C16_EarlyExit ==
    Classified =>
        /\ StopOf(lines) # 0 => scan.broke /\ idx = StopOf(lines) - 1
        /\ StopOf(lines) = 0 => ~scan.broke /\ idx = 0
        /\ \A j \in 1..Len(file) :
              LET tg == TailOf(Suffix(j))
              IN  ( /\ StopOf(tg) # 0
                    /\ StopOf(lines) # 0
                    /\ tg[StopOf(tg)].at + j - 1 = lines[StopOf(lines)].at )
                  => ParseAgentState(Suffix(j), mtime, age, tsu) = result

(* an older turn boundary and an older pending tool-use are not seen       *)
C16_Witness ==
    /\ Classified
    /\ file = << Assistant(OPUS, <<ToolUse("t1", "Bash", BashLs)>>),
                 System("turn_duration"),
                 Assistant(OPUS, <<TextBlock>>) >>
    /\ tsu = 8
    /\ idx = 2
    /\ scan.broke
    /\ ~scan.has_turn_duration
    /\ result.state = "waiting_input"
    /\ ParseAgentState(Suffix(3), mtime, age, tsu) = result

----------------------------------------------------------------------------
(* C17: the text flag and the event that sets it *)

(* the scan has processed the tail line at position n *)
Scanned(n) == n \in (idx + 1)..Len(lines)

(* the tail line at position n decodes to an assistant event *)
AssistantAt(n) == Decodable(lines[n]) /\ IsEvent(lines[n].line, "assistant")

(* the flag is set by the line on which the loop breaks *)
TextSetAt == idx + 1

(* the tool_use block k of the line at n has a tool_result in a newer line *)
CompletedWhenScanned(n, k) ==
    \E p \in (n + 1)..Len(lines) :
        Decodable(lines[p]) /\ HasResultFor(lines[p].line, lines[n].line.content[k].id)

(* C17, as stated: last_assistant_has_text is true only from a text block  *)
(* of the most recent assistant event of the window, and only when that    *)
(* event holds no tool_use block; an older assistant event never sets it.  *)
C17_TextOnlyFromNewestAssistantEvent ==
    (pc \in {"scan", "classify", "done"} /\ scan.last_assistant_has_text) =>
        /\ AssistantAt(TextSetAt)
        /\ \E k \in BlocksOf(lines[TextSetAt].line, "assistant") :
               lines[TextSetAt].line.content[k].type = "text"
        /\ \A n \in (TextSetAt + 1)..Len(lines) : ~AssistantAt(n)
        /\ \A k \in BlocksOf(lines[TextSetAt].line, "assistant") :
               ~IsToolUse(lines[TextSetAt].line, k)

(* what the loop guarantees instead: the flag comes from a text block of   *)
(* the line the loop breaks on, and every tool_use block scanned before    *)
(* that text block, in newer events or earlier in the same event, was      *)
(* completed by a tool_result of a newer line                              *)
TextFlagFollowsOnlyCompletedTools ==
    (pc \in {"scan", "classify", "done"} /\ scan.last_assistant_has_text) =>
        /\ AssistantAt(TextSetAt)
        /\ \E k \in BlocksOf(lines[TextSetAt].line, "assistant") :
            /\ lines[TextSetAt].line.content[k].type = "text"
            /\ \A j \in 1..(k - 1) :
                   IsToolUse(lines[TextSetAt].line, j)
                       => CompletedWhenScanned(TextSetAt, j)
            /\ \A n \in (TextSetAt + 1)..Len(lines) :
                   AssistantAt(n) =>
                       \A j \in BlocksOf(lines[n].line, "assistant") :
                           IsToolUse(lines[n].line, j)
                               => CompletedWhenScanned(n, j)

(* an older assistant event sets the flag behind a completed tool_use *)
OlderTextSetsFlag ==
    /\ Classified
    /\ file = << Assistant(OPUS, <<TextBlock>>),
                 Assistant(OPUS, <<ToolUse("t1", "Bash", BashLs)>>),
                 User(<<ToolResult("t1")>>) >>
    /\ scan.last_assistant_has_text
    /\ tsu = 8
    /\ result.state = STATE_WAITING_INPUT

----------------------------------------------------------------------------
(* C18: active_tool_ids and completed_tool_ids *)

Disjoint == scan.active_tool_ids \cap scan.completed_tool_ids = {}

(* no step adds a completed id to the active ids, and no step adds an      *)
(* active id to the completed ids                                          *)
NoCrossing ==
    /\ \A id \in scan.completed_tool_ids : id \notin scan'.active_tool_ids
    /\ \A id \in scan.active_tool_ids : id \notin scan'.completed_tool_ids

(* C18: at every step of the backward scan active_tool_ids and             *)
(* completed_tool_ids are disjoint; an id that is in completed_tool_ids is *)
(* never added to active_tool_ids, and once an id is in active_tool_ids no *)
(* tool_result adds it to completed_tool_ids.                              *)
C18_ActiveAndCompletedDisjoint == []Disjoint /\ [][NoCrossing]_vars

(* one tool_use is completed and skipped, the other becomes active, and an *)
(* older tool_result for the active id is left unread by the break         *)
C18_Witness ==
    /\ Classified
    /\ scan.completed_tool_ids = {"t1"}
    /\ scan.active_tool_ids = {"t2"}
    /\ \E n \in 1..idx : HasResultFor(lines[n].line, "t2")

----------------------------------------------------------------------------
(* C19: the order of the classification *)

ToolStates == {STATE_WORKING, STATE_WAITING_PERMISSION}

QuietStates == {STATE_WAITING_INPUT, STATE_THINKING, STATE_IDLE}

(* C19: the classification is first-match-wins. When active_tool_ids is    *)
(* non-empty, and the file is not stale, the result is Working or          *)
(* WaitingPermission and names the tool, whether or not a turn_duration    *)
(* was seen and whether or not the assistant event holds text; a result of *)
(* WaitingInput, Thinking or Idle is returned only with active_tool_ids    *)
(* empty.                                                                  *)
C19_ActiveToolsDecideFirst ==
    Returned =>
        /\ (Classified /\ scan.active_tool_ids # {}) =>
              /\ result.state \in ToolStates
              /\ result.tool_name = scan.last_tool_name
              /\ result.status_text = StatusOrName(scan)
        /\ result.state \in QuietStates => scan.active_tool_ids = {}
        /\ result.state \in ToolStates \cup QuietStates

(* a tool call is active while a turn_duration was seen and the assistant  *)
(* event holds text: the result is Working                                 *)
C19_Witness ==
    /\ Classified
    /\ scan.active_tool_ids = {"t1"}
    /\ scan.has_turn_duration
    /\ scan.last_assistant_has_text
    /\ result.state = STATE_WORKING

(* the same with the permission timer elapsed *)
C19_PermissionReached ==
    /\ Classified
    /\ scan.active_tool_ids # {}
    /\ scan.has_turn_duration
    /\ result.state = STATE_WAITING_PERMISSION

----------------------------------------------------------------------------
(* C20: the last case of the classification *)

(* the scan has found no active tool call, no turn boundary and no text *)
NothingFound ==
    /\ scan.active_tool_ids = {}
    /\ ~scan.has_turn_duration
    /\ ~scan.last_assistant_has_text

(* the tail holds lines, and json.loads fails on each of them *)
AllMalformed == lines # <<>> /\ \A n \in 1..Len(lines) : Malformed(lines[n])

(* the same, each failure being a JSONDecodeError *)
AllUndecodable == lines # <<>> /\ \A n \in 1..Len(lines) : DecodeFails(lines[n])

ThinkingOrIdle ==
    IF tsu < THINKING_WINDOW_S
    THEN AgentState(STATE_THINKING, "", Msg("status_thinking"), mtime, scan.model)
    ELSE AgentState(STATE_IDLE, "", format_age(tsu), mtime, scan.model)

(* C20, as stated: when the scan finds no active tool id, no turn boundary *)
(* and no qualifying assistant text, which includes a non-empty tail whose *)
(* lines are all malformed, the result is Thinking with the thinking       *)
(* phrase if now - mtime < 3 and Idle with the formatted age otherwise.    *)
C20_NothingFoundIsThinkingOrIdle ==
    /\ (Classified /\ NothingFound) => result = ThinkingOrIdle
    /\ (pc \in {"done", "raised"} /\ AllMalformed) =>
           Classified /\ NothingFound /\ result = ThinkingOrIdle

(* what holds of every call: a scan that ends without an exception and     *)
(* finds nothing, in particular the scan of a tail of undecodable lines,   *)
(* gives Thinking or Idle by the 3 s window                                *)
NothingFoundByCompletedScan ==
    /\ (Classified /\ NothingFound) => result = ThinkingOrIdle
    /\ (pc \in {"done", "raised"} /\ AllUndecodable) =>
           Classified /\ NothingFound /\ result = ThinkingOrIdle

(* the two outcomes, on a tail of undecodable lines *)
UndecodableTailIsThinking ==
    Classified /\ AllUndecodable /\ tsu = 2 /\ result.state = STATE_THINKING

UndecodableTailIsIdle ==
    Classified /\ AllUndecodable /\ tsu = 3 /\ result.state = STATE_IDLE
        /\ result.status_text = format_age(3)

(* a tail of malformed lines on which the call raises *)
MalformedTailRaises == pc = "raised" /\ AllMalformed /\ tsu = -1

----------------------------------------------------------------------------
(* C21: the reported model *)

(* str.lower() on the pieces of the model names *)
Lower(tok) ==
    CASE tok = "OPUS" -> "opus"
      [] tok = "Claude" -> "claude"
      [] OTHER -> tok

(* the scanned assistant events that name a model *)
NamesModel == {n \in (idx + 1)..Len(lines) :
                  AssistantAt(n) /\ lines[n].line.model # <<>>}

(* the newest of them *)
NewestNamed == CHOOSE n \in NamesModel : \A m \in NamesModel : m <= n

Family(name, fam) == \E i \in 1..Len(name) : name[i] = fam

FamilyAnyCase(name, fam) == \E i \in 1..Len(name) : Lower(name[i]) = fam

(* C21, as stated: the family substrings are matched case-insensitively *)
C21_AsStated ==
    Classified =>
        result.model =
            IF NamesModel = {} THEN <<>>
            ELSE LET name == lines[NewestNamed].line.model
                 IN  IF FamilyAnyCase(name, "opus") THEN <<"opus">>
                     ELSE IF FamilyAnyCase(name, "sonnet") THEN <<"sonnet">>
                     ELSE IF FamilyAnyCase(name, "haiku") THEN <<"haiku">>
                     ELSE name

(* C21: the reported model is the one of the newest scanned assistant      *)
(* event with a non-empty model, never replaced by an older event's; it is *)
(* "opus", "sonnet" or "haiku" when the name contains that substring as    *)
(* written (case-sensitive, tried in this order), else the name itself;    *)
(* and every result of the classification carries it unchanged. The early  *)
(* returns before the scan carry no model.                                 *)
C21_ModelOfNewestNamedEvent ==
    /\ Classified =>
        /\ result.model = scan.model
        /\ result.model =
            IF NamesModel = {} THEN <<>>
            ELSE LET name == lines[NewestNamed].line.model
                 IN  IF Family(name, "opus") THEN <<"opus">>
                     ELSE IF Family(name, "sonnet") THEN <<"sonnet">>
                     ELSE IF Family(name, "haiku") THEN <<"haiku">>
                     ELSE name
    /\ (Returned /\ ~Classified) => result.model = <<>>

(* three events naming a model are scanned; the newest one decides, and an *)
(* upper-case family name is kept as written                               *)
C21_Witness ==
    /\ Classified
    /\ idx = 0
    /\ file = << Assistant(OPUS, <<>>),
                 Assistant(<<"claude", "sonnet", "opus">>, <<>>),
                 Assistant(<<"Claude", "OPUS", "4">>, <<>>) >>
    /\ result.model = <<"Claude", "OPUS", "4">>

(* order of the families: opus is tried before sonnet *)
C21_OpusBeforeSonnet ==
    /\ Classified
    /\ Len(file) = 2
    /\ file[2] = Assistant(<<"claude", "sonnet", "opus">>, <<>>)
    /\ result.model = <<"opus">>

----------------------------------------------------------------------------
(* C22: the length and the line breaks of a tool status *)

(* a tool call is reported *)
ToolReported == Classified /\ result.tool_name # ""

(* the characters put into the template's placeholder *)
StatusArg == result.status_text.arg

(* the longest argument a Bash status holds: 30 characters and "..." *)
LongestBashArg == BASH_CMD_MAX_LEN + Len(Ellipsis)

(* C22, as stated: the status of every tool call is a short single-line    *)
(* string: what fills the template is bounded in length by a fixed         *)
(* constant, here the bound the Bash branch enforces, and holds no line    *)
(* break, for shell commands, search patterns, sub-agent descriptions and  *)
(* unknown tool names.                                                     *)
C22_StatusIsShortSingleLine ==
    ToolReported =>
        /\ Len(StatusArg) <= LongestBashArg
        /\ \A i \in 1..Len(StatusArg) : StatusArg[i] # LineBreak

(* what does hold: a Bash status is bounded, and a tool without arguments  *)
(* shows its template alone                                                *)
BashStatusIsBounded ==
    ToolReported =>
        /\ result.tool_name = "Bash" => Len(StatusArg) <= LongestBashArg
        /\ result.tool_name = "WebFetch" => StatusArg = <<>>

(* a two-line command is reported with its line break *)
TwoLineStatus ==
    /\ ToolReported
    /\ result.tool_name = "Bash"
    /\ StatusArg = TwoLineCmd

(* a search pattern of 40 characters is reported whole *)
LongPatternStatus ==
    /\ ToolReported
    /\ result.tool_name = "Grep"
    /\ Len(StatusArg) = 40

----------------------------------------------------------------------------
(* C23: has_turn_duration and has_progress over the scan *)

(* the step is an iteration of the scan loop, on the line lines[idx] *)
ScanStep == pc = "scan" /\ idx > 0 /\ idx' = idx - 1

Scanning == lines[idx].line

FlagsKept ==
    /\ scan'.has_turn_duration = scan.has_turn_duration
    /\ scan'.has_progress = scan.has_progress

FlagsOverScan ==
    ScanStep =>
        /\ scan.has_turn_duration => scan'.has_turn_duration
        /\ scan.has_progress => scan'.has_progress
        /\ IsTurnEnd(Scanning) =>
               scan'.has_turn_duration
                   /\ scan'.has_progress = scan.has_progress
        /\ IsProgress(Scanning) =>
               scan'.has_progress
                   /\ scan'.has_turn_duration = scan.has_turn_duration
        /\ (~IsTurnEnd(Scanning) /\ ~IsProgress(Scanning)) => FlagsKept
        /\ (IsEvent(Scanning, "system") \/ IsEvent(Scanning, "summary")) =>
               ~scan'.raised

(* C23: has_turn_duration and has_progress are monotonic accumulators over *)
(* the scan: once a system event has set one of them, no later step of the *)
(* scan sets it back to false; a turn_duration sets the first, a progress  *)
(* subtype the second, and an event of any other type or subtype leaves    *)
(* both unchanged, without an error.                                       *)
C23_SignalFlagsOnlyAccumulate == [][FlagsOverScan]_vars

(* both flags were set by newer lines and have survived the scan of an     *)
(* older system event of another subtype and of an event of another type   *)
C23_Witness ==
    /\ Classified
    /\ idx = 0
    /\ Len(file) = 3
    /\ file[1] \in {System("api_error"), OtherLine}
    /\ file[2] = System("turn_duration")
    /\ file[3] \in {System("mcp_progress"), System("agent_progress")}
    /\ scan.has_turn_duration
    /\ scan.has_progress

----------------------------------------------------------------------------
(* C24: what scan_sessions returns *)

(* the files of the listing that are sessions: *.jsonl files whose name    *)
(* does not hold "compact", and that can be stat'ed                        *)
SessionFileAt(i, gone) ==
    /\ Last(projects[i].name) = ".jsonl"
    /\ \A k \in 1..Len(projects[i].name) : projects[i].name[k] # "compact"
    /\ i \notin gone

CutoffMinutes(idle_timeout_min, show_all) ==
    IF show_all THEN 30 ELSE idle_timeout_min

Recent(i, minutes) == now - projects[i].mtime <= minutes * 60

(* the value `out` is the answer to the listing `projects` at time `now` *)
ScanPost(out, idle_timeout_min, show_all, gone) ==
    LET want == {i \in 1..Len(projects) :
                    /\ SessionFileAt(i, gone)
                    /\ Recent(i, CutoffMinutes(idle_timeout_min, show_all))}
    IN  /\ Len(out) = Cardinality(want)
        /\ \A i \in want : \E k \in 1..Len(out) :
              /\ out[k].jsonl_path = << projects[i].project, projects[i].name >>
              /\ out[k].mtime = projects[i].mtime
              /\ out[k].age_seconds = now - projects[i].mtime
        /\ \A k \in 1..Len(out) :
              out[k].has_process <=> (out[k].age_seconds < 30)
        /\ \A j, k \in 1..Len(out) : j < k => out[j].mtime >= out[k].mtime

(* C24: scan_sessions returns exactly the non-compact *.jsonl session      *)
(* files whose age, now - mtime, is at most the cutoff (30 minutes with    *)
(* show_all, idle_timeout_min minutes without), ordered by mtime from the  *)
(* newest to the oldest, and a session has has_process exactly when its    *)
(* age is below 30 s.                                                      *)
C24_RecentSessionsNewestFirst ==
    [][\A idle_timeout_min \in {10, 20}, show_all \in BOOLEAN,
          gone \in {{}, {1}} :
            scan_sessions(idle_timeout_min, show_all, gone) =>
                ScanPost(sessions', idle_timeout_min, show_all, gone)]_vars

(* two sessions are returned, the newer first although it is listed last:  *)
(* it is 30 s old and no longer alive; a compact file of the listing is    *)
(* left out                                                                *)
C24_Witness ==
    /\ Len(sessions) = 2
    /\ Len(projects) = 3
    /\ IsCompact(projects[2].name)
    /\ sessions[1].jsonl_path = << projects[3].project, projects[3].name >>
    /\ sessions[1].mtime + 30 = now
    /\ sessions[1].age_seconds = 30
    /\ ~sessions[1].has_process
    /\ sessions[2].age_seconds = 31

(* a session at the cutoff of 10 minutes is returned, an older one is not *)
C24_AtCutoff ==
    /\ Len(projects) = 2
    /\ \A i \in 1..2 : SessionFileAt(i, {})
    /\ now - projects[1].mtime = 601
    /\ now - projects[2].mtime = 600
    /\ Len(sessions) = 1
    /\ sessions[1].age_seconds = 600

(* a session younger than 30 s is alive *)
C24_AliveReached ==
    /\ Len(sessions) >= 1
    /\ sessions[1].age_seconds = 1
    /\ sessions[1].has_process

----------------------------------------------------------------------------
(* C25: the states reported for a file that does not change *)

(* the call at hand polled the file of the caller's previous call, neither *)
(* written nor touched in between, at a later or equal clock value; both   *)
(* calls returned, and stat and read succeeded in both                     *)
UnchangedFilePolledAgain ==
    /\ prev.valid /\ ~prev.raised /\ Returned
    /\ prev.file = file /\ prev.mtime = mtime
    /\ prev.now <= now /\ prev.age <= age
    /\ prev.age >= 0 /\ (prev.nopen = 1 => prev.nbytes > 0)
    /\ ReturnedWithoutIoError

(* the steps along Working -> WaitingPermission -> Idle,                   *)
(* Thinking -> WaitingInput -> Idle and Thinking -> Idle                   *)
Forward ==
    { << STATE_WORKING, STATE_WAITING_PERMISSION >>,
      << STATE_WORKING, STATE_IDLE >>,
      << STATE_WAITING_PERMISSION, STATE_IDLE >>,
      << STATE_THINKING, STATE_WAITING_INPUT >>,
      << STATE_THINKING, STATE_IDLE >>,
      << STATE_WAITING_INPUT, STATE_IDLE >> }

C25_PermissionToIdle ==
    /\ UnchangedFilePolledAgain
    /\ prev.result.state = STATE_WAITING_PERMISSION
    /\ age = 130 /\ result.state = STATE_IDLE

C25_ThinkingToWaitingInput ==
    /\ UnchangedFilePolledAgain
    /\ prev.result.state = STATE_THINKING
    /\ result.state = STATE_WAITING_INPUT

C25_ThinkingToIdle ==
    /\ UnchangedFilePolledAgain
    /\ prev.result.state = STATE_THINKING
    /\ age = 5 /\ result.state = STATE_IDLE

C25_IdleStays ==
    /\ UnchangedFilePolledAgain
    /\ prev.age = 120 /\ prev.result.state = STATE_IDLE
    /\ age = 130 /\ result.state = STATE_IDLE

(* a poll whose stat fails reports Idle, and the next poll of the same     *)
(* file reports Working again                                              *)
IdleOnStatFailureThenWorking ==
    /\ prev.valid /\ Returned
    /\ prev.file = file /\ prev.mtime = mtime /\ prev.now <= now
    /\ prev.age = -1 /\ prev.result.state = STATE_IDLE
    /\ result.state = STATE_WORKING

----------------------------------------------------------------------------
(* C26: which turn_duration events count *)

TurnEndAt(n) == Decodable(lines[n]) /\ IsTurnEnd(lines[n].line)

(* a user prompt: a user event without a tool_result *)
UserPromptAt(n) ==
    /\ Decodable(lines[n]) /\ IsEvent(lines[n].line, "user")
    /\ \A k \in BlocksOf(lines[n].line, "user") :
           lines[n].line.content[k].type # "tool_result"

(* C26, as stated: a turn_duration sets has_turn_duration, and makes the   *)
(* result WaitingInput, only when it is newer than every assistant event   *)
(* and every user prompt of the tail: a turn_duration that an assistant    *)
(* event or a new user prompt follows is not taken.                        *)
C26_OnlyNewestTurnEndCounts ==
    (Classified /\ scan.has_turn_duration) =>
        \E n \in 1..Len(lines) :
            /\ TurnEndAt(n)
            /\ \A m \in (n + 1)..Len(lines) : ~AssistantAt(m) /\ ~UserPromptAt(m)

(* what the loop does: has_turn_duration is set by every turn_duration     *)
(* among the scanned lines, whatever follows it, and by no line older than *)
(* the one the loop breaks on                                              *)
TurnEndCountsIffScanned ==
    Classified =>
        (scan.has_turn_duration <=> \E n \in (idx + 1)..Len(lines) : TurnEndAt(n))

(* a turn_duration followed by a new user prompt gives WaitingInput *)
TurnEndBeforePromptCounts ==
    /\ Classified
    /\ file = << System("turn_duration"), UserPrompt >>
    /\ tsu = 0
    /\ result.state = STATE_WAITING_INPUT

(* a turn_duration followed by a completed tool call gives WaitingInput *)
TurnEndBeforeCompletedToolCounts ==
    /\ Classified
    /\ file = << System("turn_duration"),
                 Assistant(OPUS, <<ToolUse("t1", "Bash", BashLs)>>),
                 User(<<ToolResult("t1")>>) >>
    /\ result.state = STATE_WAITING_INPUT

----------------------------------------------------------------------------
(* C27: the event and the block behind the reported tool *)

(* the line on which the loop broke *)
StopLine == idx + 1

(* the tool_use blocks of the tail line n without a tool_result on a newer *)
(* line                                                                    *)
PendingAt(n) ==
    {k \in BlocksOf(lines[n].line, "assistant") :
        IsToolUse(lines[n].line, k) /\ ~CompletedWhenScanned(n, k)}

NamedPendingAt(n) ==
    {k \in PendingAt(n) : lines[n].line.content[k].name # ""}

FirstOfBlocks(S) == CHOOSE k \in S : \A j \in S : k <= j

(* C27: when the scan ends with active ids, all of them come from one      *)
(* assistant event, the newest one that holds a tool_use without a seen    *)
(* tool_result; the returned tool_name and status are those of the first   *)
(* such block of that event, in block order, that has a non-empty name     *)
(* (empty if there is none); and the permission decision looks at that     *)
(* name alone, whatever other blocks of the event are pending.             *)
C27_FirstNamedPendingBlockReported ==
    (Classified /\ scan.active_tool_ids # {}) =>
        /\ AssistantAt(StopLine)
        /\ PendingAt(StopLine) # {}
        /\ \A n \in (StopLine + 1)..Len(lines) : AssistantAt(n) => PendingAt(n) = {}
        /\ scan.active_tool_ids =
               {lines[StopLine].line.content[k].id : k \in PendingAt(StopLine)}
        /\ IF NamedPendingAt(StopLine) = {}
           THEN result.tool_name = "" /\ result.status_text = EmptyText
           ELSE LET b == lines[StopLine].line.content[
                             FirstOfBlocks(NamedPendingAt(StopLine))]
                IN  /\ result.tool_name = b.name
                    /\ result.status_text =
                           format_tool_status(b.name, b.input_ok, b.input).text
        /\ result.state = STATE_WAITING_PERMISSION <=>
               /\ result.tool_name \notin EXEMPT_TOOLS
               /\ ~scan.has_progress
               /\ tsu > 7

(* three blocks are pending: the first has no name, the second is the      *)
(* exempt Read and is reported, so the call stays Working at 8 s although  *)
(* a Bash call of the same event is pending too                            *)
C27_Witness ==
    /\ Classified
    /\ tsu = 8
    /\ scan.active_tool_ids = {"t1", "t2", "t3"}
    /\ NamedPendingAt(StopLine) = {2, 3}
    /\ result.tool_name = "Read"
    /\ result.state = STATE_WORKING

(* the first block is completed, the second is reported *)
C27_SecondBlockReported ==
    /\ Classified
    /\ tsu = 8
    /\ scan.completed_tool_ids = {"t1"}
    /\ scan.active_tool_ids = {"t2"}
    /\ Len(lines[StopLine].line.content) = 2
    /\ result.tool_name = "Read"

----------------------------------------------------------------------------
(* C28: what every returned AgentState satisfies *)

ProgressScanned ==
    \E n \in (idx + 1)..Len(lines) :
        Decodable(lines[n]) /\ IsProgress(lines[n].line)

(* C28: every returned AgentState has one of the five states; the state    *)
(* WaitingPermission implies that tool_name is not an exempt tool, that no *)
(* progress signal was seen and that now - mtime > 7 s; tool_name is       *)
(* non-empty only with the states Working and WaitingPermission; and       *)
(* last_update is the file's mtime in every case but the stat failure.     *)
C28_ReturnedStateIsWellFormed ==
    Returned =>
        /\ result.state \in {"working", "thinking", "waiting_permission",
                             "waiting_input", "idle"}
        /\ result.state = "waiting_permission" =>
              /\ Classified
              /\ result.tool_name \notin
                     {"Read", "Glob", "Grep", "TodoWrite", "WebSearch",
                      "WebFetch", "Agent", "Task", "AskUserQuestion"}
              /\ ~scan.has_progress /\ ~ProgressScanned
              /\ tsu > 7
        /\ result.tool_name # "" =>
              result.state \in {"working", "waiting_permission"}
        /\ StatSucceeded => result.last_update = mtime
        /\ ~StatSucceeded => result.last_update = 0

(* WaitingPermission is returned for Bash at 8 s, with the mtime as        *)
(* last_update; the log holds a progress event, older than the tool_use    *)
C28_Witness ==
    /\ Returned
    /\ result.state = "waiting_permission"
    /\ result.tool_name = "Bash"
    /\ result.last_update = mtime
    /\ tsu = 8
    /\ Len(file) = 2 /\ IsProgress(file[1])

(* the cases of last_update: stale file, empty tail, stat failure *)
C28_StaleHasMtime ==
    Returned /\ age = 130 /\ result.last_update = mtime /\ mtime = StartTime

C28_StatFailureHasNone ==
    Returned /\ ~StatSucceeded /\ file # <<>> /\ result.last_update = 0

----------------------------------------------------------------------------
(* C29: which progress events count for the reported tool *)

ProgressAt(n) == Decodable(lines[n]) /\ IsProgress(lines[n].line)

(* a progress event lies later in the file than the line of the reported   *)
(* tool_use                                                                *)
ProgressAfterTool == \E n \in (StopLine + 1)..Len(lines) : ProgressAt(n)

ProgressBeforeTool == \E n \in 1..(StopLine - 1) : ProgressAt(n)

(* C29: while a tool is reported active, has_progress is set only by a     *)
(* progress event that lies later in the file than the assistant line of   *)
(* the reported tool_use; a progress event written before that line does   *)
(* not keep the call from returning WaitingPermission.                     *)
C29_OnlyLaterProgressCounts ==
    (Classified /\ scan.active_tool_ids # {}) =>
        /\ scan.has_progress => ProgressAfterTool
        /\ ( /\ ~ProgressAfterTool
             /\ result.tool_name \notin EXEMPT_TOOLS
             /\ tsu > PERMISSION_TIMER_S )
           => result.state = STATE_WAITING_PERMISSION

(* a progress event precedes the tool_use: WaitingPermission at 8 s *)
C29_Witness ==
    /\ Classified
    /\ scan.active_tool_ids = {"t1"}
    /\ ProgressBeforeTool
    /\ ~ProgressAfterTool
    /\ ~scan.has_progress
    /\ tsu = 8
    /\ result.state = STATE_WAITING_PERMISSION

(* a progress event follows the tool_use: Working at 8 s *)
C29_LaterProgressReached ==
    /\ Classified
    /\ scan.active_tool_ids = {"t1"}
    /\ ProgressAfterTool
    /\ scan.has_progress
    /\ tsu = 8
    /\ result.state = STATE_WORKING

----------------------------------------------------------------------------
(* C30: the language of the status after set_lang *)

(* set_lang was called with a registered language before the call *)
LangSet == current_lang \in REGISTRY

(* the status is a phrase of a message table *)
IsPhrase(text) == text.lang # ""

(* the status is the phrase of a tool *)
IsToolPhrase(text) ==
    text.tpl \in { ToolTemplate(t) : t \in {"Read", "Edit", "Write", "Bash",
                                            "Grep", "Task", "WebSearch",
                                            "WebFetch", "TodoWrite"} }

(* C30: after set_lang(L) with L a registered language every status        *)
(* string parse_agent_state returns is in language L (the tool phrase, the *)
(* waiting-for-input, responding and thinking phrases and the formatted    *)
(* age), whatever the locale of the environment.                           *)
C30_StatusInLanguageOfSetLang ==
    ( Returned /\ LangSet /\ IsPhrase(result.status_text) )
    => result.status_text.lang = current_lang

(* what the code does: the tool phrase is in the language of set_lang, any *)
(* other phrase in the language of the environment                         *)
StatusLanguageByPhrase ==
    ( Returned /\ IsPhrase(result.status_text) )
    => result.status_text.lang =
           IF IsToolPhrase(result.status_text)
           THEN get_messages(current_lang)
           ELSE get_messages("auto")

(* after set_lang("ja") in an English environment: a Japanese tool phrase  *)
ToolPhraseInSetLang ==
    /\ Returned /\ current_lang = "ja" /\ env_lang = "en"
    /\ result.tool_name = "Bash"
    /\ result.status_text.lang = "ja"

(* ... and an English responding phrase and an English age *)
RespondingInEnvLang ==
    /\ Returned /\ current_lang = "ja" /\ env_lang = "en"
    /\ result.status_text = Fmt("status_responding", "en", <<>>, 0)

AgeInEnvLang ==
    /\ Returned /\ current_lang = "ja" /\ env_lang = "en"
    /\ result.status_text = Fmt("time_minutes_ago", "en", <<>>, 2)

====
